---- MODULE Spec2Model ----
(***************************************************************************)
(* A state-machine model of the forwarder proxy: the martian Session and   *)
(* Context (internal/martian/context.go) and the HTTPProxy construction,   *)
(* upstream selection and policy middleware (http_proxy.go, kept in        *)
(* src/httplog/httplog.go from line 192 on).                               *)
(***************************************************************************)
EXTENDS Integers, Sequences, FiniteSets, TLC

VARIABLES
    sess,       \* [SessionIds -> Session]: the fields of every martian.Session
    calls,      \* [SessionIds -> Seq([op, err])]: hijack calls made through the API, in order
    nextID,     \* the process-wide atomic counter nextID
    ctxs,       \* the sequence of Contexts built by withSession so far
    gor,        \* [Goroutines -> [pc, n]]: a goroutine's position inside withSession
    cfg,        \* the HTTPProxyConfig, PACResolver and CredentialsMatcher given to NewHTTPProxy
    hp,         \* the HTTPProxy: not built yet, rejected with an error, or built
    sel,        \* the last call of hp.proxyFunc: its request, what it returned, what it invoked
    loop,       \* [SessionIds -> Exchange]: where the proxy is in serving each session
    aborts,     \* the applications of an abortIf modifier made so far, in order
    grp,        \* a fifo group: the modifiers registered and the order they were run in
    tun,        \* [SessionIds -> Tunnel]: the handling of CONNECT on each session
    run,        \* HTTPProxy.Run: its goroutines, the server, the listener
    lh,         \* the resolver's surroundings and the classifications isLocalhost made
    cli,        \* the calls of the httpexpect Client.do made so far, in order
    pacs,       \* a proxy string and what Proxies.All and Proxies.First gave for it
    logs,       \* the entries handed to a log function and the records it emitted
    dnsCalls,   \* the calls of the PAC builtin dnsResolve and what they returned
    prop,       \* propagation contexts and the martian Contexts attached to them
    vals,       \* the value maps of a session and of its contexts, and what Get returned
    hdr,        \* requests, and their headers before and after the header modifiers
    hj          \* goroutines inside Hijack and HijackResponseWriter on one session

sessVars == <<sess, calls>>
ctxVars  == <<nextID, ctxs, gor>>
cfgVars  == <<cfg, hp, sel>>
coreVars == <<sess, calls, nextID, ctxs, gor, cfg, hp, sel, loop>>
moreVars == <<pacs, logs, dnsCalls, prop, vals, hdr, hj>>
baseVars == <<sess, calls, nextID, ctxs, gor, cfg, hp, sel, loop, aborts, grp, tun, run, lh, cli>>
auxVars  == <<aborts, grp, tun, run, lh, cli, pacs, logs, dnsCalls, prop, vals, hdr, hj>>
vars     == <<sess, calls, nextID, ctxs, gor, cfg, hp, sel, loop, aborts, grp, tun, run, lh, cli,
              pacs, logs, dnsCalls, prop, vals, hdr, hj>>

(***************************************************************************)
(* Session (context.go:44-52).  conn is whether the net.Conn is non-nil;   *)
(* rw is "nil", or names the kind of http.ResponseWriter behind it: one    *)
(* whose connection can be taken over ("hijacker") or one that cannot      *)
(* ("plain", e.g. an HTTP/2 writer).                                       *)
(***************************************************************************)
RWKinds == {"nil", "hijacker", "plain"}

\* vals is the map behind Get and Set, seen through the one key the model
\* stores under: "nil" while the map is nil, afterwards the value stored.
SessionVals == {"nil", "v1", "v2"}

Session == [conn : BOOLEAN, rw : RWKinds, secure : BOOLEAN, hijacked : BOOLEAN,
            vals : SessionVals]

\* newSession(conn, brw): only conn and brw are set.
newSession(conn) ==
    [conn |-> conn, rw |-> "nil", secure |-> FALSE, hijacked |-> FALSE, vals |-> "nil"]

\* newSessionWithResponseWriter(rw): only rw is set.
newSessionWithResponseWriter(rw) ==
    [conn |-> FALSE, rw |-> rw, secure |-> FALSE, hijacked |-> FALSE, vals |-> "nil"]

\* http.NewResponseController(rw).Hijack(): nil for a writer that implements
\* http.Hijacker, http.ErrNotSupported for one that does not.
ResponseControllerHijack(rw) ==
    IF rw = "hijacker" THEN "nil" ELSE "ErrNotSupported"

\* The deferred assignment of Hijack: s.hijacked = err == nil.
HijackNeverMarks(err) ==
    FALSE

HijackDeferredFlag(err) ==
    err = "nil"

\* Session.Hijack.  The result is the error returned ("panic" when the call
\* panics) and the session as the call leaves it.  The deferred function
\* also runs when the call panics, with err still nil.
Hijack(s) ==
    IF s.hijacked
    THEN [err |-> "already hijacked", s |-> s]
    ELSE IF s.conn
    THEN [err |-> "nil", s |-> [s EXCEPT !.hijacked = HijackDeferredFlag("nil")]]
    ELSE IF s.rw # "nil"
    THEN LET err == ResponseControllerHijack(s.rw)
         IN  [err |-> err, s |-> [s EXCEPT !.hijacked = HijackDeferredFlag(err)]]
    ELSE [err |-> "panic", s |-> [s EXCEPT !.hijacked = HijackDeferredFlag("nil")]]

\* Session.HijackResponseWriter setting the flag on every path.
HijackResponseWriterMarking(s) ==
    IF s.hijacked
    THEN [err |-> "already hijacked", s |-> s]
    ELSE IF s.rw # "nil"
    THEN [err |-> "nil", s |-> [s EXCEPT !.hijacked = TRUE]]
    ELSE [err |-> "no response writer", s |-> [s EXCEPT !.hijacked = TRUE]]

\* Session.HijackResponseWriter.
HijackResponseWriter(s) ==
    IF s.hijacked
    THEN [err |-> "already hijacked", s |-> s]
    ELSE IF s.rw # "nil"
    THEN [err |-> "nil", s |-> [s EXCEPT !.hijacked = TRUE]]
    ELSE [err |-> "no response writer", s |-> s]

\* Session.Hijacked.
Hijacked(s) == s.hijacked

\* Session.MarkSecure leaving the flag alone.
MarkSecureNoop(s) ==
    s

\* Session.MarkSecure.
MarkSecure(s) ==
    [s EXCEPT !.secure = TRUE]

\* Session.MarkInsecure.
MarkInsecure(s) ==
    [s EXCEPT !.secure = FALSE]

\* Session.IsSecure.
IsSecure(s) == s.secure

\* Session.Set under the model's key: the map is made when nil, then the
\* value is stored.
SetValue(s, val) ==
    [s EXCEPT !.vals = val]

\* A session backed by a connection or by a response writer.
Backed(s) == s.conn \/ s.rw # "nil"

(***************************************************************************)
(* The sessions of the model.                                              *)
(***************************************************************************)
SessionIds == {"s1", "s2"}

\* Every session the two constructors can build (newSession is also called
\* with a nil conn, by TestContext in tests).
NewSessions ==
    {newSession(c) : c \in BOOLEAN}
        \cup {newSessionWithResponseWriter(rw) : rw \in {"hijacker", "plain"}}

MaxCalls == 3

(***************************************************************************)
(* Context (context.go:33-41) and withSession (context.go:257-267).        *)
(***************************************************************************)
Goroutines == {"g1", "g2"}

\* The session a goroutine serves: one connection per goroutine.
SessionOf(g) == IF g = "g1" THEN "s1" ELSE "s2"

MaxContexts == 3

\* uint32(time.Now().UnixNano()): the low 32 bits of the clock, which wrap
\* every 4.3 s, so any value can come back.
HashVals == {0, 10, 48879}

\* nextID.Add(1): one atomic read-modify-write returning the new value.
\* (atomic.Uint64 wraps at 2^64, out of reach of MaxContexts.)
NextIDLoad(v) ==
    v

NextIDAdd(v) ==
    v + 1

withSession(s, n, hash) ==
    [session |-> s, n |-> n, hash |-> hash, skipRoundTrip |-> FALSE]

\* Context.SkipRoundTrip leaving the flag alone.
SkipRoundTripNoop(ctx) ==
    ctx

\* Context.SkipRoundTrip.
SkipRoundTrip(ctx) ==
    [ctx EXCEPT !.skipRoundTrip = TRUE]

\* Context.SkippingRoundTrip.
SkippingRoundTrip(ctx) == ctx.skipRoundTrip

\* No context: the value of a Context variable before withSession.
NoContext == [session |-> "", n |-> 0, hash |-> 0, skipRoundTrip |-> FALSE]

DecDigit(d) ==
    CASE d = 0 -> "0" [] d = 1 -> "1" [] d = 2 -> "2" [] d = 3 -> "3"
      [] d = 4 -> "4" [] d = 5 -> "5" [] d = 6 -> "6" [] d = 7 -> "7"
      [] d = 8 -> "8" [] d = 9 -> "9"

HexDigit(d) ==
    CASE d < 10 -> DecDigit(d)
      [] d = 10 -> "a" [] d = 11 -> "b" [] d = 12 -> "c"
      [] d = 13 -> "d" [] d = 14 -> "e" [] d = 15 -> "f"

\* %d: the decimal digits of n, most significant first.
RECURSIVE FormatDec(_)
FormatDec(n) ==
    IF n < 10 THEN <<DecDigit(n)>> ELSE Append(FormatDec(n \div 10), DecDigit(n % 10))

\* %x: the hexadecimal digits of n, most significant first.
RECURSIVE FormatHex(_)
FormatHex(n) ==
    IF n < 16 THEN <<HexDigit(n)>> ELSE Append(FormatHex(n \div 16), HexDigit(n % 16))

\* %08x: %x padded with zeros on the left to a width of 8.
RECURSIVE PadLeft(_, _)
PadLeft(digits, width) ==
    IF Len(digits) >= width THEN digits ELSE PadLeft(<<"0">> \o digits, width)

\* Context.ID: fmt.Sprintf("%d-%08x", ctx.n, ctx.hash), as a sequence of characters.
ID(ctx) ==
    FormatDec(ctx.n) \o <<"-">> \o PadLeft(FormatHex(ctx.hash), 8)

(***************************************************************************)
(* HTTPProxyConfig (httplog.go:267-289) with the PACResolver and the       *)
(* CredentialsMatcher NewHTTPProxy takes.  A pointer or function field is  *)
(* TRUE when it is non-nil.                                                *)
(***************************************************************************)
DenyProxyLocalhost   == "deny"
AllowProxyLocalhost  == "allow"
DirectProxyLocalhost == "direct"

\* ProxyLocalhostMode.isValid.
isValid(m) ==
    m \in {DenyProxyLocalhost, AllowProxyLocalhost, DirectProxyLocalhost}

\* A *url.URL: its host and its user-info; user "" is a nil User.  The nil
\* URL, which stands for DIRECT, has an empty host.
URL(host, user) == [host |-> host, user |-> user]

NilURL == URL("", "")

\* The hostnames requests are made for.
Hosts == {"localhost", "127.0.0.1", "myhost", "internal.corp", "example.com", "evil.com"}

\* The upstream proxies, and the ones the credential rules cover.
CredHosts == {"fproxy", "up", "p1"}

Configs ==
    [ UpstreamProxyFunc : BOOLEAN,                 \* config.UpstreamProxyFunc != nil
      UpstreamProxy     : {NilURL, URL("up", ""), URL("up", "own")},
      pac               : BOOLEAN,                 \* the PACResolver pr != nil
      creds             : BOOLEAN,                 \* the CredentialsMatcher cm != nil
      DirectDomains     : BOOLEAN,
      DenyDomains       : BOOLEAN,
      ProxyLocalhost    : {"", DenyProxyLocalhost, AllowProxyLocalhost, DirectProxyLocalhost},
      BasicAuth         : BOOLEAN,
      LogHTTPMode       : {"none", "errors"},
      PromRegistry      : BOOLEAN,
      CloseAfterReply   : BOOLEAN ]

\* HTTPProxyConfig.Validate: the checks on the fields modelled here.
Validate(c) ==
    IF ~isValid(c.ProxyLocalhost) THEN "unsupported proxy_localhost" ELSE "nil"

\* config.DirectDomains.Match and the DenyDomains matcher, on a hostname.
DirectDomainsMatch(h) == h = "internal.corp"

DenyDomainsMatch(h) == h = "evil.com"

\* CredentialsMatcher.MatchURL: the user-info of the first rule matching the
\* URL, "" (nil) when no rule does, the matcher is nil or the URL is nil.
MatchURL(c, u) ==
    IF c.creds /\ u # NilURL /\ u.host \in CredHosts THEN "matched" ELSE ""

(***************************************************************************)
(* Localhost resolution (httplog.go:684-704).                              *)
(***************************************************************************)
\* localhostResolver.LookupHost: the hosts file only, never a DNS query.  An
\* IP literal resolves to itself.
LookupHost(h) ==
    CASE h = "127.0.0.1"     -> [err |-> "nil", addrs |-> <<"127.0.0.1">>]
      [] h = "myhost"        -> [err |-> "nil", addrs |-> <<"127.99.0.5", "10.0.0.7">>]
      [] h = "dual"          -> [err |-> "nil", addrs |-> <<"10.0.0.7", "127.0.0.1">>]
      [] h = "internal.corp" -> [err |-> "nil", addrs |-> <<"10.0.0.5">>]
      [] OTHER               -> [err |-> "no such host", addrs |-> <<>>]

\* net.ParseIP on the addresses of the hosts file.
ParseIP(a) ==
    CASE a = "127.0.0.1"  -> <<127, 0, 0, 1>>
      [] a = "127.99.0.5" -> <<127, 99, 0, 5>>
      [] a = "10.0.0.5"   -> <<10, 0, 0, 5>>
      [] a = "10.0.0.7"   -> <<10, 0, 0, 7>>
      [] a = "93.184.216.34" -> <<93, 184, 216, 34>>
      [] OTHER            -> <<>>

\* net.IP.IsLoopback for an IPv4 address: 127.0.0.0/8.
IsLoopback(ip) == ip[1] = 127

\* isLocalhost without the hosts-file lookup.
isLocalhostLiteral(h) ==
    h = "localhost"

\* What public DNS would answer for a name: an address, or "" for none.
DNSAnswer(h) ==
    IF h \in DOMAIN lh.dns THEN lh.dns[h] ELSE ""

\* isLocalhost with a resolver that asks DNS for what the hosts file lacks.
isLocalhostResolving(h) ==
    IF h = "localhost"
    THEN TRUE
    ELSE LET r == LookupHost(h)
             a == IF r.err = "nil" THEN r.addrs[1] ELSE DNSAnswer(h)
         IN  IF ParseIP(a) # <<>> THEN IsLoopback(ParseIP(a)) ELSE FALSE

\* HTTPProxy.isLocalhost.
isLocalhost(h) ==
    IF h = "localhost"
    THEN TRUE
    ELSE LET r == LookupHost(h)
         IN  IF r.err = "nil" /\ ParseIP(r.addrs[1]) # <<>>
             THEN IsLoopback(ParseIP(r.addrs[1]))
             ELSE FALSE

(***************************************************************************)
(* Upstream selection (httplog.go:458-520, 658-682).  A ProxyFunc returns  *)
(* [url, err]; a nil url with a nil err is DIRECT.                         *)
(***************************************************************************)
Direct == [url |-> NilURL, err |-> "nil"]

\* config.UpstreamProxyFunc, a function of the embedding program: this one
\* answers with a proxy without user-info, a proxy with user-info, DIRECT
\* and an error, depending on the host.
UpstreamProxyFunc(h) ==
    CASE h = "myhost"    -> [url |-> URL("fproxy", "own"), err |-> "nil"]
      [] h = "127.0.0.1" -> Direct
      [] h = "evil.com"  -> [url |-> NilURL, err |-> "proxy func failed"]
      [] OTHER           -> [url |-> URL("fproxy", ""), err |-> "nil"]

\* hp.pac.FindProxyForURL: the proxy string of the PAC script, as its list
\* of candidates in the order the script wrote them.
FindProxyForURL(h) ==
    CASE h = "internal.corp" -> [s |-> <<[mode |-> "DIRECT", host |-> ""]>>, err |-> "nil"]
      [] h = "myhost"        -> [s |-> <<[mode |-> "PROXY", host |-> "p2"],
                                         [mode |-> "PROXY", host |-> "p1"]>>, err |-> "nil"]
      [] h = "evil.com"      -> [s |-> <<>>, err |-> "script error"]
      [] OTHER               -> [s |-> <<[mode |-> "PROXY", host |-> "p1"],
                                         [mode |-> "DIRECT", host |-> ""]>>, err |-> "nil"]

\* pac.Proxies(s).First(): the first candidate of the proxy string.
First(s) == s[1]

\* pac.Proxy.URL: nil for DIRECT, the proxy's URL, without user-info, otherwise.
ProxyURL(p) == IF p.mode = "DIRECT" THEN NilURL ELSE URL(p.host, "")

\* upstreamProxyURL with the check of proxyURL.User dropped.
upstreamProxyURLAlwaysMatches(c) ==
    LET u == MatchURL(c, c.UpstreamProxy)
    IN  IF u # "" THEN URL(c.UpstreamProxy.host, u) ELSE c.UpstreamProxy

\* HTTPProxy.upstreamProxyURL: a copy of config.UpstreamProxy, with the
\* matched user-info when it has none of its own.
upstreamProxyURL(c) ==
    LET proxyURL == c.UpstreamProxy
        u == MatchURL(c, proxyURL)
    IN  IF proxyURL.user = "" /\ u # "" THEN URL(proxyURL.host, u) ELSE proxyURL

\* pacProxy taking the last candidate of the proxy string.
pacProxyLast(c, h) ==
    LET r == FindProxyForURL(h)
    IN  IF r.err # "nil"
        THEN [url |-> NilURL, err |-> r.err]
        ELSE LET proxyURL == ProxyURL(r.s[Len(r.s)])
                 u == MatchURL(c, proxyURL)
             IN  [url |-> IF u # "" THEN URL(proxyURL.host, u) ELSE proxyURL,
                  err |-> "nil"]

\* HTTPProxy.pacProxy.
pacProxy(c, h) ==
    LET r == FindProxyForURL(h)
    IN  IF r.err # "nil"
        THEN [url |-> NilURL, err |-> r.err]
        ELSE LET proxyURL == ProxyURL(First(r.s))
                 u == MatchURL(c, proxyURL)
             IN  [url |-> IF u # "" THEN URL(proxyURL.host, u) ELSE proxyURL,
                  err |-> "nil"]

\* The switch of configureProxy with its first two cases exchanged.
BaseProxyFuncStaticFirst(c) ==
    IF c.UpstreamProxy # NilURL THEN "static"
    ELSE IF c.UpstreamProxyFunc THEN "func"
    ELSE IF c.pac THEN "pac"
    ELSE "nil"

\* The switch of configureProxy (httplog.go:458-471): which selector
\* hp.proxyFunc is set to; the first case that holds wins.
BaseProxyFunc(c) ==
    IF c.UpstreamProxyFunc THEN "func"
    ELSE IF c.UpstreamProxy # NilURL THEN "static"
    ELSE IF c.pac THEN "pac"
    ELSE "nil"

\* directDomains(fn) and directLocalhost(fn): nil for a nil fn, a wrapper otherwise.
Wraps(base) == base # "nil"

\* hp.proxyFunc as configureProxy leaves it: the base selector, the URL
\* http.ProxyURL closes over, and the wrappers composed around the base.
configureProxyFunc(c) ==
    LET base == BaseProxyFunc(c)
    IN  [ base            |-> base,
          staticURL       |-> IF base = "static" THEN upstreamProxyURL(c) ELSE NilURL,
          directDomains   |-> c.DirectDomains /\ Wraps(base),
          directLocalhost |-> c.ProxyLocalhost = DirectProxyLocalhost /\ Wraps(base) ]

\* A call of the base selector.
CallBase(pf, c, h) ==
    CASE pf.base = "func"   -> UpstreamProxyFunc(h)
      [] pf.base = "static" -> [url |-> pf.staticURL, err |-> "nil"]
      [] pf.base = "pac"    -> pacProxy(c, h)

\* The closure directDomains returns, with the match test negated.
directDomainsCallNegated(pf, c, h) ==
    IF pf.directDomains /\ ~DirectDomainsMatch(h)
    THEN [url |-> NilURL, err |-> "nil", baseCalls |-> 0]
    ELSE LET r == CallBase(pf, c, h)
         IN  [url |-> r.url, err |-> r.err, baseCalls |-> 1]

\* The closure directDomains returns (when composed), around the base.
directDomainsCall(pf, c, h) ==
    IF pf.directDomains /\ DirectDomainsMatch(h)
    THEN [url |-> NilURL, err |-> "nil", baseCalls |-> 0]
    ELSE LET r == CallBase(pf, c, h)
         IN  [url |-> r.url, err |-> r.err, baseCalls |-> 1]

\* The closure directLocalhost returns (when composed), around directDomains:
\* a call of the composed hp.proxyFunc, which must not be nil.
CallProxyFunc(pf, c, h) ==
    IF pf.directLocalhost /\ isLocalhost(h)
    THEN [url |-> NilURL, err |-> "nil", baseCalls |-> 0]
    ELSE directDomainsCall(pf, c, h)

\* The check of newHTTPProxy dropped.
NoConflict(c) == FALSE

\* newHTTPProxy (httplog.go:376-378): cfg.UpstreamProxy != nil && pr != nil.
UpstreamAndPAC(c) == c.UpstreamProxy # NilURL /\ c.pac

\* A nil ProxyFunc.
NilProxyFunc ==
    [base |-> "nil", staticURL |-> NilURL, directDomains |-> FALSE, directLocalhost |-> FALSE]

\* newHTTPProxy: the error, or the proxy configureProxy builds.
newHTTPProxy(c) ==
    IF Validate(c) # "nil"
    THEN [state |-> "error", err |-> Validate(c), proxyFunc |-> NilProxyFunc]
    ELSE IF UpstreamAndPAC(c)
    THEN [state |-> "error", err |-> "cannot use both upstream proxy and PAC",
          proxyFunc |-> NilProxyFunc]
    ELSE [state |-> "ok", err |-> "nil", proxyFunc |-> configureProxyFunc(c)]

\* Before NewHTTPProxy is called there is no proxy.
NoProxy == [state |-> "new", err |-> "nil", proxyFunc |-> NilProxyFunc]

\* DefaultHTTPProxyConfig (httplog.go:291-303), without upstream, PAC or credentials.
DefaultHTTPProxyConfig ==
    [ UpstreamProxyFunc |-> FALSE, UpstreamProxy |-> NilURL, pac |-> FALSE, creds |-> FALSE,
      DirectDomains |-> FALSE, DenyDomains |-> FALSE, ProxyLocalhost |-> DenyProxyLocalhost,
      BasicAuth |-> FALSE, LogHTTPMode |-> "errors", PromRegistry |-> FALSE,
      CloseAfterReply |-> FALSE ]

\* No call of hp.proxyFunc made yet.
NoSel == [called |-> FALSE, host |-> "", url |-> NilURL, err |-> "nil", baseCalls |-> 0]

(***************************************************************************)
(* The middleware pipeline (httplog.go:522-656).                           *)
(***************************************************************************)
\* A request as the pipeline sees it: the URL hostname, and whether it
\* carries the proxy credentials of config.BasicAuth.  user is what the
\* request modifier the embedding program supplied does with it: nothing,
\* hijack the session, return an error, or plant a response on the context
\* and call SkipRoundTrip.
UserBehaviours == {"pass", "hijack", "fail", "skip"}

\* middlewareStack with the stack registered before the policy modifiers.
topgStackFirst(c) ==
    <<"stack">>
        \o (IF c.BasicAuth THEN <<"basicAuth">> ELSE <<>>)
        \o (IF c.ProxyLocalhost = DenyProxyLocalhost THEN <<"denyLocalhost">> ELSE <<>>)
        \o (IF c.DenyDomains THEN <<"denyDomains">> ELSE <<>>)

\* middlewareStack: the request modifiers of the top group topg, in
\* registration order.
topg(c) ==
    (IF c.BasicAuth THEN <<"basicAuth">> ELSE <<>>)
        \o (IF c.ProxyLocalhost = DenyProxyLocalhost THEN <<"denyLocalhost">> ELSE <<>>)
        \o (IF c.DenyDomains THEN <<"denyDomains">> ELSE <<>>)
        \o <<"stack">>

\* middlewareStack: the request modifiers of the inner group fg, in
\* registration order (config.RequestModifiers holds one modifier).
fg(c) ==
    <<"user">>
        \o (IF c.LogHTTPMode # "none" THEN <<"logger">> ELSE <<>>)
        \o <<"setBasicAuth", "setEmptyUserAgent">>

\* httpspec.NewStack and the modifiers added to the stack: the core request
\* modifiers, then fg, then the Prometheus middleware.
stack(c) ==
    <<"httpspec">> \o fg(c) \o (IF c.PromRegistry THEN <<"prometheus">> ELSE <<>>)

\* The request modifiers of the whole pipeline, groups flattened, in the
\* order a fifo group runs them: registration order.
RECURSIVE Flatten(_, _)
Flatten(mods, c) ==
    IF mods = <<>> THEN <<>>
    ELSE (IF Head(mods) = "stack" THEN stack(c) ELSE <<Head(mods)>>) \o Flatten(Tail(mods), c)

RequestModifiers(c) == Flatten(topg(c), c)

\* The status of the response each aborting modifier synthesizes:
\* unauthorizedResponse, errorResponse(ErrProxyLocalhost), errorResponse(ErrProxyDenied).
StatusProxyAuthRequired == 407
StatusForbidden == 403
StatusBadGateway == 502
StatusOK == 200

\* The state a run of the pipeline threads through: the modifiers run so
\* far, the error that stopped it ("nil": none, "panic": a panic), the
\* session, the responses written to the client and by whom, whether a
\* hijack call handed the stream over, and what abortIf did, in order.
PipelineStart(s, ctx) ==
    [ran |-> <<>>, err |-> "nil", aborted |-> "", s |-> s, ctx |-> ctx, out |-> <<>>,
     handed |-> FALSE, events |-> <<>>]

\* The log modes (httplog.go:22-29).
LogModes == {"none", "short-url", "url", "headers", "body", "errors"}

StatusInternalServerError == 500

\* Logger.LogFunc with the status test of the Errors case dropped.
LogFuncEveryStatus(mode, status) ==
    mode \notin {"", "none"}

\* Logger.LogFunc: whether the function it returns for the mode writes a
\* record for an entry with the status.
LogFunc(mode, status) ==
    CASE mode \in {"", "none"} -> FALSE
      [] mode \in {"short-url", "url", "headers", "body"} -> TRUE
      [] mode = "errors" -> ~(status < StatusInternalServerError)

\* What abortIf does before it hijacks: the request goes to the logger, the
\* response is synthesized with Close set, the response goes to the logger.
abortIfLogged(c, status) ==
    << [ev |-> "ModifyRequest", status |-> 0, record |-> FALSE],
       [ev |-> "ModifyResponse", status |-> status, record |-> LogFunc(c.LogHTTPMode, status)] >>

\* abortIf returning the error without writing the response.
abortIfSilent(c, name, cond, status, returnErr, st) ==
    IF ~cond
    THEN st
    ELSE [st EXCEPT !.s = Hijack(st.s).s, !.err = returnErr, !.aborted = name]

\* abortIf: the modifier it returns, applied with condition(req) = cond.
abortIf(c, name, cond, status, returnErr, st) ==
    IF ~cond
    THEN st
    ELSE LET h == Hijack(st.s)
             w == HijackResponseWriter(h.s)
             res == [status |-> status, close |-> TRUE, by |-> name]
             written == [ev |-> "write", status |-> status, record |-> FALSE]
             st1 == [st EXCEPT !.events = @ \o abortIfLogged(c, status), !.aborted = name]
         IN  IF h.err = "nil"
             \* writeErrorResponseToBuffer
             THEN [st1 EXCEPT !.s = h.s, !.out = Append(@, res), !.handed = TRUE,
                              !.events = Append(@, written), !.err = returnErr]
             ELSE IF h.err = "ErrNotSupported"
             THEN IF w.err = "nil"
                  \* writeErrorResponseToResponseWriter
                  THEN [st1 EXCEPT !.s = w.s, !.out = Append(@, res), !.handed = TRUE,
                                   !.events = Append(@, written), !.err = returnErr]
                  ELSE [st1 EXCEPT !.s = w.s, !.err = "panic"]
             ELSE [st1 EXCEPT !.s = h.s, !.err = "panic"]

\* The policy modifiers built on abortIf: the status of the response each
\* synthesizes and the error each returns.
AbortModifiers == {"basicAuth", "denyLocalhost", "denyDomains"}

abortStatus(name) ==
    IF name = "basicAuth" THEN StatusProxyAuthRequired ELSE StatusForbidden

abortErr(name) ==
    CASE name = "basicAuth"     -> "basic auth required"
      [] name = "denyLocalhost" -> "localhost access denied"
      [] name = "denyDomains"   -> "domain access denied"

\* A request modifier the embedding program supplied.
userModifier(behaviour, st) ==
    CASE behaviour = "hijack" ->
             LET h == Hijack(st.s)
             IN  [st EXCEPT !.s = h.s, !.handed = (h.err = "nil"),
                            !.err = IF h.err = "nil" THEN "nil" ELSE "hijack failed"]
      [] behaviour = "fail" -> [st EXCEPT !.err = "modifier failed"]
      [] behaviour = "skip" -> [st EXCEPT !.ctx = SkipRoundTrip(@)]
      [] OTHER -> st

\* The condition of basicAuth with the test of the credentials dropped.
basicAuthConditionNever(req) ==
    FALSE

\* The condition basicAuth gives abortIf: !ba.AuthenticatedRequest(req, user, pass).
basicAuthCondition(req) ==
    ~req.auth

\* ModifyRequest of one modifier of the pipeline.
ModifyRequest(name, c, req, st) ==
    LET st1 == [st EXCEPT !.ran = Append(@, name)]
    IN  CASE name = "basicAuth" ->
                 abortIf(c, name, basicAuthCondition(req), abortStatus(name),
                         abortErr(name), st1)
          [] name = "denyLocalhost" ->
                 abortIf(c, name, isLocalhost(req.host), abortStatus(name),
                         abortErr(name), st1)
          [] name = "denyDomains" ->
                 abortIf(c, name, DenyDomainsMatch(req.host), abortStatus(name),
                         abortErr(name), st1)
          [] name = "user" -> userModifier(req.user, st1)
          [] OTHER -> st1

\* fifo.Group.ModifyRequest: the modifiers in order, up to the first error.
RECURSIVE RunGroup(_, _, _, _)
RunGroup(mods, c, req, st) ==
    IF mods = <<>> \/ st.err # "nil"
    THEN st
    ELSE RunGroup(Tail(mods), c, req, ModifyRequest(Head(mods), c, req, st))

(***************************************************************************)
(* The exchange of a session: the request loop of the proxy.               *)
(***************************************************************************)
MaxRequests == 2

\* The hostnames of the requests the sessions carry.
RequestHosts == {"localhost", "myhost", "example.com", "evil.com"}

\* The sets of upstream proxies that refuse a dial.
DownSets == {{}, {"p1"}}

\* A request: close is whether it asks for the connection to be closed
\* after the reply (Connection: close, or HTTP/1.0 without keep-alive).
NoRequest == [host |-> "", auth |-> FALSE, user |-> "pass", close |-> FALSE]

\* The requests made to a proxy on a session: to every host, with and
\* without the proxy credentials when the proxy asks for them, asking or
\* not for the connection to be closed when the session is a connection;
\* the requests the user modifier acts on are requests to example.com.
Requests(c, s) ==
    { r \in [ host  : RequestHosts,
              auth  : IF c.BasicAuth THEN BOOLEAN ELSE {FALSE},
              user  : UserBehaviours,
              close : IF s.conn THEN BOOLEAN ELSE {FALSE} ] :
        r.user # "pass" => r.host = "example.com" }

\* configureProxy with the assignment of CloseAfterReply left out.
CloseAfterReplyUnset(c) ==
    FALSE

\* configureProxy: hp.proxy.CloseAfterReply = hp.config.CloseAfterReply.
CloseAfterReply(c) ==
    c.CloseAfterReply

\* State of the proxy on one session: pc is "read" (waiting for the next
\* request), "modreq" (request parsed, context minted), "roundtrip", "write",
\* "closed" or "panic"; served counts the requests read; reads and writes
\* count what the proxy itself read from and wrote to the session; skips
\* counts the exchanges that went without a round trip because the context
\* said so; the rest records the current exchange, skipRoundTrip being the
\* flag of its Context.
NoExchange ==
    [ pc |-> "read", served |-> 0, reads |-> 0, writes |-> 0, req |-> NoRequest,
      ran |-> <<>>, aborted |-> "", out |-> <<>>, handed |-> FALSE,
      sels |-> 0, baseCalls |-> 0, dials |-> <<>>, down |-> {}, via |-> "", trips |-> 0,
      skipRoundTrip |-> FALSE, skips |-> 0 ]

(***************************************************************************)
(* The parts of the state a specification leaves alone keep these values.  *)
(***************************************************************************)
CoreIdle ==
    /\ sess = [s \in SessionIds |-> newSession(TRUE)]
    /\ calls = [s \in SessionIds |-> <<>>]
    /\ nextID = 0
    /\ ctxs = <<>>
    /\ gor = [g \in Goroutines |-> [pc |-> "idle", n |-> 0]]
    /\ cfg = DefaultHTTPProxyConfig
    /\ hp = NoProxy
    /\ sel = NoSel
    /\ loop = [id \in SessionIds |-> NoExchange]

MoreInit ==
    /\ pacs = <<>>
    /\ logs = <<>>
    /\ dnsCalls = <<>>
    /\ prop = <<>>
    /\ vals = <<>>
    /\ hdr = <<>>
    /\ hj = <<>>

AuxIdle ==
    /\ aborts = <<>>
    /\ grp = <<>>
    /\ tun = <<>>
    /\ run = <<>>
    /\ lh = <<>>
    /\ cli = <<>>

AuxInit == AuxIdle /\ MoreInit

(***************************************************************************)
(* The session API: callers of Hijack and HijackResponseWriter.            *)
(***************************************************************************)
InitSession ==
    /\ sess \in [SessionIds -> NewSessions]
    /\ calls = [s \in SessionIds |-> <<>>]
    /\ nextID = 0
    /\ ctxs = <<>>
    /\ gor = [g \in Goroutines |-> [pc |-> "idle", n |-> 0]]
    /\ cfg = DefaultHTTPProxyConfig
    /\ hp = NoProxy
    /\ sel = NoSel
    /\ loop = [id \in SessionIds |-> NoExchange]
    /\ AuxInit

\* One call of Hijack or HijackResponseWriter on session id; the session
\* mutex makes the whole call one step.
CallHijack(id) ==
    /\ Len(calls[id]) < MaxCalls
    /\ LET r == Hijack(sess[id])
       IN  /\ sess' = [sess EXCEPT ![id] = r.s]
           /\ calls' = [calls EXCEPT ![id] = Append(@, [op |-> "Hijack", err |-> r.err])]
    /\ UNCHANGED <<ctxVars, cfgVars, loop, auxVars>>

CallHijackResponseWriter(id) ==
    /\ Len(calls[id]) < MaxCalls
    /\ LET r == HijackResponseWriter(sess[id])
       IN  /\ sess' = [sess EXCEPT ![id] = r.s]
           /\ calls' = [calls EXCEPT ![id] =
                            Append(@, [op |-> "HijackResponseWriter", err |-> r.err])]
    /\ UNCHANGED <<ctxVars, cfgVars, loop, auxVars>>

\* The other operations that write a session: MarkSecure, MarkInsecure and
\* Set, each under the session mutex.
CallMarkSecure(id) ==
    /\ sess' = [sess EXCEPT ![id] = MarkSecure(@)]
    /\ UNCHANGED <<calls, ctxVars, cfgVars, loop, auxVars>>

CallMarkInsecure(id) ==
    /\ sess' = [sess EXCEPT ![id] = MarkInsecure(@)]
    /\ UNCHANGED <<calls, ctxVars, cfgVars, loop, auxVars>>

CallSet(id) ==
    /\ \E val \in SessionVals \ {"nil"} : sess' = [sess EXCEPT ![id] = SetValue(@, val)]
    /\ UNCHANGED <<calls, ctxVars, cfgVars, loop, auxVars>>

NextSession ==
    \E id \in SessionIds :
        \/ CallHijack(id)
        \/ CallHijackResponseWriter(id)
        \/ CallMarkSecure(id)
        \/ CallMarkInsecure(id)
        \/ CallSet(id)

SpecSession == InitSession /\ [][NextSession]_vars

(***************************************************************************)
(* Context creation: every goroutine builds contexts with withSession.     *)
(***************************************************************************)
InitCtx ==
    /\ sess = [s \in SessionIds |-> newSession(TRUE)]
    /\ calls = [s \in SessionIds |-> <<>>]
    /\ nextID = 0
    /\ ctxs = <<>>
    /\ gor = [g \in Goroutines |-> [pc |-> "idle", n |-> 0]]
    /\ cfg = DefaultHTTPProxyConfig
    /\ hp = NoProxy
    /\ sel = NoSel
    /\ loop = [id \in SessionIds |-> NoExchange]
    /\ AuxInit

Started == Cardinality({g \in Goroutines : gor[g].pc = "add"})

\* withSession, first half: n: nextID.Add(1).
WithSessionAdd(g) ==
    /\ gor[g].pc = "idle"
    /\ Len(ctxs) + Started < MaxContexts
    /\ nextID' = NextIDAdd(nextID)
    /\ gor' = [gor EXCEPT ![g] = [pc |-> "add", n |-> nextID']]
    /\ UNCHANGED <<sess, calls, ctxs, cfgVars, loop, auxVars>>

\* withSession, second half: hash: uint32(time.Now().UnixNano()), and the
\* Context is built.
WithSessionNow(g) ==
    /\ gor[g].pc = "add"
    /\ \E hash \in HashVals :
           ctxs' = Append(ctxs, withSession(SessionOf(g), gor[g].n, hash))
    /\ gor' = [gor EXCEPT ![g] = [pc |-> "idle", n |-> 0]]
    /\ UNCHANGED <<sess, calls, nextID, cfgVars, loop, auxVars>>

NextCtx ==
    \E g \in Goroutines : WithSessionAdd(g) \/ WithSessionNow(g)

SpecCtx == InitCtx /\ [][NextCtx]_vars

(***************************************************************************)
(* Construction and upstream selection: NewHTTPProxy on any configuration, *)
(* then calls of the composed hp.proxyFunc.                                *)
(***************************************************************************)
InitCfg ==
    /\ sess = [s \in SessionIds |-> newSession(TRUE)]
    /\ calls = [s \in SessionIds |-> <<>>]
    /\ nextID = 0
    /\ ctxs = <<>>
    /\ gor = [g \in Goroutines |-> [pc |-> "idle", n |-> 0]]
    /\ cfg \in Configs
    /\ hp = NoProxy
    /\ sel = NoSel
    /\ loop = [id \in SessionIds |-> NoExchange]
    /\ AuxInit

\* NewHTTPProxy / NewHTTPProxyHandler, up to the call of newHTTPProxy they share.
NewHTTPProxy ==
    /\ hp.state = "new"
    /\ hp' = newHTTPProxy(cfg)
    /\ UNCHANGED <<sessVars, ctxVars, cfg, sel, loop, auxVars>>

\* One call of hp.proxyFunc, for a request to host h.
SelectUpstream(h) ==
    /\ hp.state = "ok"
    /\ hp.proxyFunc.base # "nil"
    /\ LET r == CallProxyFunc(hp.proxyFunc, cfg, h)
       IN  sel' = [called |-> TRUE, host |-> h, url |-> r.url, err |-> r.err,
                   baseCalls |-> r.baseCalls]
    /\ UNCHANGED <<sessVars, ctxVars, cfg, hp, loop, auxVars>>

NextCfg ==
    \/ NewHTTPProxy
    \/ \E h \in Hosts : SelectUpstream(h)

SpecCfg == InitCfg /\ [][NextCfg]_vars

(***************************************************************************)
(* abortIf on its own: the modifiers built on it applied, with the         *)
(* condition true or false, to requests of sessions the proxy built.       *)
(***************************************************************************)
MaxAborts == 2

\* The sessions the proxy builds: of a connection, of a response writer.
ProxySessions == {s \in NewSessions : Backed(s)}

\* The default configuration under every log mode.
AbortConfigs == {[DefaultHTTPProxyConfig EXCEPT !.LogHTTPMode = m] : m \in LogModes}

InitAbort ==
    /\ sess \in [SessionIds -> ProxySessions]
    /\ calls = [s \in SessionIds |-> <<>>]
    /\ nextID = 0
    /\ ctxs = <<>>
    /\ gor = [g \in Goroutines |-> [pc |-> "idle", n |-> 0]]
    /\ cfg \in AbortConfigs
    /\ hp = NoProxy
    /\ sel = NoSel
    /\ loop = [id \in SessionIds |-> NoExchange]
    /\ AuxInit

\* One application of an abortIf modifier to a request of session id.
ApplyAbortIf(id) ==
    /\ Len(aborts) < MaxAborts
    /\ \E name \in AbortModifiers, cond \in BOOLEAN :
           LET st == abortIf(cfg, name, cond, abortStatus(name), abortErr(name),
                             PipelineStart(sess[id], withSession(id, 1, 0)))
           IN  /\ sess' = [sess EXCEPT ![id] = st.s]
               /\ aborts' = Append(aborts, [id |-> id, name |-> name, cond |-> cond,
                                            before |-> sess[id], after |-> st.s,
                                            err |-> st.err, out |-> st.out,
                                            events |-> st.events])
    /\ UNCHANGED <<calls, ctxVars, cfgVars, loop, grp, tun, run, lh, cli, moreVars>>

NextAbort ==
    \E id \in SessionIds : ApplyAbortIf(id)

SpecAbort == InitAbort /\ [][NextAbort]_vars

(***************************************************************************)
(* A modifier group (fifo.Group): modifiers are registered, the group is   *)
(* sealed (ToImmutable), and requests and responses are run through it.    *)
(***************************************************************************)
MaxModifiers == 3

MaxExchanges == 2

\* The modifiers there are to register; each can modify requests and responses.
Modifiers == {"A", "B", "C", "D"}

\* A sequence in reverse.
RECURSIVE Reverse(_)
Reverse(q) ==
    IF q = <<>> THEN <<>> ELSE Append(Reverse(Tail(q)), Head(q))

\* A group running its response modifiers in registration order.
ResponseOrderAsRegistered(resmods) ==
    resmods

\* The order a group runs its request modifiers in: registration order.
RequestOrder(reqmods) ==
    reqmods

\* The order a group runs its response modifiers in: the reverse of
\* registration order.
ResponseOrder(resmods) ==
    Reverse(resmods)

\* fifo.NewGroup.
NewGroup ==
    [reqmods |-> <<>>, resmods |-> <<>>, sealed |-> FALSE, reqRun |-> <<>>, resRun |-> <<>>,
     requests |-> 0, responses |-> 0]

\* Whether m is an element of the sequence q.
InSeq(m, q) == \E i \in 1..Len(q) : q[i] = m

InitGroup ==
    /\ sess = [s \in SessionIds |-> newSession(TRUE)]
    /\ calls = [s \in SessionIds |-> <<>>]
    /\ nextID = 0
    /\ ctxs = <<>>
    /\ gor = [g \in Goroutines |-> [pc |-> "idle", n |-> 0]]
    /\ cfg = DefaultHTTPProxyConfig
    /\ hp = NoProxy
    /\ sel = NoSel
    /\ loop = [id \in SessionIds |-> NoExchange]
    /\ aborts = <<>>
    /\ grp = NewGroup
    /\ tun = <<>>
    /\ run = <<>>
    /\ lh = <<>>
    /\ cli = <<>>
    /\ MoreInit

\* Group.AddRequestModifier.
AddRequestModifier(m) ==
    /\ ~grp.sealed
    /\ Len(grp.reqmods) < MaxModifiers
    /\ ~InSeq(m, grp.reqmods)
    /\ grp' = [grp EXCEPT !.reqmods = Append(@, m)]
    /\ UNCHANGED <<coreVars, aborts, tun, run, lh, cli, moreVars>>

\* Group.AddResponseModifier.
AddResponseModifier(m) ==
    /\ ~grp.sealed
    /\ Len(grp.resmods) < MaxModifiers
    /\ ~InSeq(m, grp.resmods)
    /\ grp' = [grp EXCEPT !.resmods = Append(@, m)]
    /\ UNCHANGED <<coreVars, aborts, tun, run, lh, cli, moreVars>>

\* Group.ToImmutable: no registration after it.
ToImmutable ==
    /\ ~grp.sealed
    /\ grp' = [grp EXCEPT !.sealed = TRUE]
    /\ UNCHANGED <<coreVars, aborts, tun, run, lh, cli, moreVars>>

\* The group's ModifyRequest on a request: reqRun is the order the
\* modifiers saw it in.
GroupModifyRequest ==
    /\ grp.sealed
    /\ grp.requests = grp.responses
    /\ grp.requests < MaxExchanges
    /\ grp' = [grp EXCEPT !.reqRun = RequestOrder(grp.reqmods), !.resRun = <<>>,
                          !.requests = @ + 1]
    /\ UNCHANGED <<coreVars, aborts, tun, run, lh, cli, moreVars>>

\* The group's ModifyResponse on the response of the request: resRun is the
\* order the modifiers saw it in.
GroupModifyResponse ==
    /\ grp.sealed
    /\ grp.responses < grp.requests
    /\ grp' = [grp EXCEPT !.resRun = ResponseOrder(grp.resmods), !.responses = @ + 1]
    /\ UNCHANGED <<coreVars, aborts, tun, run, lh, cli, moreVars>>

NextGroup ==
    \/ \E m \in Modifiers : AddRequestModifier(m) \/ AddResponseModifier(m)
    \/ ToImmutable
    \/ GroupModifyRequest
    \/ GroupModifyResponse

SpecGroup == InitGroup /\ [][NextGroup]_vars

(***************************************************************************)
(* CONNECT: the proxy serving connections whose clients ask for tunnels.   *)
(* cfg holds the fields of HTTPProxyConfig this handling reads.            *)
(***************************************************************************)
MaxParsed == 3

MaxRelayed == 2

\* config.MITM != nil, config.MITMDomains != nil, config.ConnectPassthrough.
ConnectConfigs ==
    [MITM : BOOLEAN, MITMDomains : BOOLEAN, ConnectPassthrough : BOOLEAN]

\* The authority hosts of the CONNECT requests, and config.MITMDomains.Match.
ConnectHosts == {"example.com", "other.org"}

MITMDomainsMatch(h) == h = "example.com"

\* configureProxy (httplog.go:420-436): the proxy gets a MITM config when
\* config.MITM is set, and then a MITMFilter when config.MITMDomains is set.
SetMITM(c) == c.MITM

MITMFilterSet(c) == c.MITM /\ c.MITMDomains

\* hp.proxy.MITMFilter(req), for a filter that is set.
MITMFilter(c, h) == MITMDomainsMatch(h)

\* Whether the proxy intercepts a CONNECT to host h: MITM is enabled and the
\* filter matches the host; a proxy without a filter has nothing to keep a
\* host from matching.
shouldMITM(c, h) ==
    SetMITM(c) /\ (MITMFilterSet(c) => MITMFilter(c, h))

\* The scheme of a request parsed on a session: https on a secure one.
RequestScheme(s) == IF IsSecure(s) THEN "https" ELSE "http"

\* The bytes a client sends through a tunnel.
Chunks == {"client hello", "data"}

\* The handling of one connection: pc is "read" (the request loop waits for
\* a request), "connect" (a CONNECT was parsed, to host), "tunnel" (bytes
\* are relayed) or "closed"; parsed holds the requests parsed, mitm the
\* hosts of the CONNECTs intercepted, relayed what went through the tunnel.
NoTunnel ==
    [pc |-> "read", host |-> "", parsed |-> <<>>, mitm |-> <<>>, relayed |-> <<>>]

InitConnect ==
    /\ sess = [s \in SessionIds |-> newSession(TRUE)]
    /\ calls = [s \in SessionIds |-> <<>>]
    /\ nextID = 0
    /\ ctxs = <<>>
    /\ gor = [g \in Goroutines |-> [pc |-> "idle", n |-> 0]]
    /\ cfg \in ConnectConfigs
    /\ hp = NoProxy
    /\ sel = NoSel
    /\ loop = [id \in SessionIds |-> NoExchange]
    /\ aborts = <<>>
    /\ grp = <<>>
    /\ tun = [id \in SessionIds |-> NoTunnel]
    /\ run = <<>>
    /\ lh = <<>>
    /\ cli = <<>>
    /\ MoreInit

\* The loop parses a request that is not a CONNECT: the modifier pipelines
\* run on it and on its response.
ParseRequest(id) ==
    /\ tun[id].pc = "read"
    /\ Len(tun[id].parsed) < MaxParsed
    /\ \E h \in ConnectHosts :
           tun' = [tun EXCEPT ![id].parsed =
                       Append(@, [method |-> "GET", host |-> h,
                                  scheme |-> RequestScheme(sess[id]),
                                  secure |-> IsSecure(sess[id]),
                                  intercepted |-> Len(tun[id].mitm),
                                  modified |-> TRUE])]
    /\ UNCHANGED <<coreVars, aborts, grp, run, lh, cli, moreVars>>

\* The loop parses a CONNECT: the authority is host:port.
ParseConnect(id) ==
    /\ tun[id].pc = "read"
    /\ Len(tun[id].parsed) < MaxParsed
    /\ \E h \in ConnectHosts :
           tun' = [tun EXCEPT ![id].pc = "connect", ![id].host = h,
                              ![id].parsed =
                                  Append(@, [method |-> "CONNECT", host |-> h,
                                             scheme |-> RequestScheme(sess[id]),
                                             secure |-> IsSecure(sess[id]),
                                             intercepted |-> Len(tun[id].mitm),
                                             modified |-> TRUE])]
    /\ UNCHANGED <<coreVars, aborts, grp, run, lh, cli, moreVars>>

\* The CONNECT is intercepted: 200, the TLS handshake with a leaf
\* certificate for the host, the session is marked secure and the request
\* loop is entered again on the decrypted stream; a failed handshake closes.
Intercept(id) ==
    /\ tun[id].pc = "connect"
    /\ shouldMITM(cfg, tun[id].host)
    /\ \E handshake \in BOOLEAN :
           IF handshake
           THEN /\ sess' = [sess EXCEPT ![id] = MarkSecure(@)]
                /\ tun' = [tun EXCEPT ![id].pc = "read", ![id].mitm = Append(@, tun[id].host)]
           ELSE /\ tun' = [tun EXCEPT ![id].pc = "closed"]
                /\ UNCHANGED sess
    /\ UNCHANGED <<calls, ctxVars, cfgVars, loop, aborts, grp, run, lh, cli, moreVars>>

\* The CONNECT is not intercepted: the upstream is dialled and the bytes
\* are relayed (with ConnectPassthrough, and without it after a 200).
Tunnel(id) ==
    /\ tun[id].pc = "connect"
    /\ ~shouldMITM(cfg, tun[id].host)
    /\ tun' = [tun EXCEPT ![id].pc = "tunnel"]
    /\ UNCHANGED <<coreVars, aborts, grp, run, lh, cli, moreVars>>

\* Bytes of the client go through the tunnel: what comes out is what went
\* in, no modifier is applied.
Relay(id) ==
    /\ tun[id].pc = "tunnel"
    /\ Len(tun[id].relayed) < MaxRelayed
    /\ \E b \in Chunks :
           tun' = [tun EXCEPT ![id].relayed =
                       Append(@, [host |-> tun[id].host, in |-> b, out |-> b,
                                  modified |-> FALSE])]
    /\ UNCHANGED <<coreVars, aborts, grp, run, lh, cli, moreVars>>

\* Either side closes: the tunnel, or the connection of the loop, ends.
CloseConnection(id) ==
    /\ tun[id].pc \in {"read", "tunnel"}
    /\ tun' = [tun EXCEPT ![id].pc = "closed"]
    /\ UNCHANGED <<coreVars, aborts, grp, run, lh, cli, moreVars>>

NextConnect ==
    \E id \in SessionIds :
        \/ ParseRequest(id)
        \/ ParseConnect(id)
        \/ Intercept(id)
        \/ Tunnel(id)
        \/ Relay(id)
        \/ CloseConnection(id)

SpecConnect == InitConnect /\ [][NextConnect]_vars

(***************************************************************************)
(* Run: the serving goroutine (Run itself) and the shutdown goroutine it   *)
(* starts, which share the local variable srv without synchronisation.     *)
(***************************************************************************)
MaxAccepts == 3

\* config.TestingHTTPHandler: an http.Server owns the accept loop.
RunConfigs == [TestingHTTPHandler : BOOLEAN]

NilServer == "nil"

HTTPServer == "http.Server"

\* What the shutdown goroutine's unsynchronised read of srv can give: the
\* value Run wrote, or the nil that srv was declared with.
RacyRead(srv) == {NilServer, srv}

\* Run returning whatever Serve returned.
RunResultAsServed(srvErr) == srvErr

\* Run's handling of what Serve returned: net.ErrClosed becomes nil, any
\* other error is returned as it is.
RunResult(srvErr) == IF srvErr = "net.ErrClosed" THEN "nil" ELSE srvErr

\* main is where Run is: "start", "config" (the goroutine is started),
\* "serve" (inside Serve), "wait" (wg.Wait) or "returned" with ret; gr is
\* where the shutdown goroutine is: "none", "waiting" (on ctx.Done),
\* "read" (it has read srv into seen), "shutting" (inside srv.Shutdown),
\* "closing" (inside hp.Close, the listener closed), "proxyclose" (inside
\* the proxy's Close) or "done"; waited tells that Run went through
\* wg.Wait.
InitRun ==
    /\ sess = [s \in SessionIds |-> newSession(TRUE)]
    /\ calls = [s \in SessionIds |-> <<>>]
    /\ nextID = 0
    /\ ctxs = <<>>
    /\ gor = [g \in Goroutines |-> [pc |-> "idle", n |-> 0]]
    /\ cfg \in RunConfigs
    /\ hp = NoProxy
    /\ sel = NoSel
    /\ loop = [id \in SessionIds |-> NoExchange]
    /\ aborts = <<>>
    /\ grp = <<>>
    /\ tun = <<>>
    /\ run = [main |-> "start", gr |-> "none", cancelled |-> FALSE,
              cancelledAt |-> "", srv |-> NilServer, seen |-> NilServer,
              listener |-> "open", proxyClosing |-> FALSE,
              shutdown |-> FALSE, closed |-> FALSE,
              accepted |-> 0, ret |-> "none", waited |-> FALSE]
    /\ lh = <<>>
    /\ cli = <<>>
    /\ MoreInit

\* Run: wg.Add(1) and the go statement.
StartShutdownGoroutine ==
    /\ run.main = "start"
    /\ run' = [run EXCEPT !.main = "config", !.gr = "waiting"]
    /\ UNCHANGED <<coreVars, aborts, grp, tun, lh, cli, moreVars>>

\* The caller cancels the context passed to Run.
Cancel ==
    /\ ~run.cancelled
    /\ run' = [run EXCEPT !.cancelled = TRUE, !.cancelledAt = run.main]
    /\ UNCHANGED <<coreVars, aborts, grp, tun, lh, cli, moreVars>>

\* Run: with TestingHTTPHandler the server is created and assigned to srv;
\* then Serve is entered.
EnterServe ==
    /\ run.main = "config"
    /\ run' = [run EXCEPT !.main = "serve",
                           !.srv = IF cfg.TestingHTTPHandler THEN HTTPServer ELSE NilServer]
    /\ UNCHANGED <<coreVars, aborts, grp, tun, lh, cli, moreVars>>

\* Serve accepts a connection.
Accept ==
    /\ run.main = "serve"
    /\ run.listener = "open" /\ ~run.shutdown /\ ~run.proxyClosing
    /\ run.accepted < MaxAccepts
    /\ run' = [run EXCEPT !.accepted = @ + 1]
    /\ UNCHANGED <<coreVars, aborts, grp, tun, lh, cli, moreVars>>

\* The shutdown goroutine: <-ctx.Done() returned, srv is read.
ReadServer ==
    /\ run.gr = "waiting"
    /\ run.cancelled
    /\ \E v \in RacyRead(run.srv) :
           run' = [run EXCEPT !.gr = "read", !.seen = v]
    /\ UNCHANGED <<coreVars, aborts, grp, tun, lh, cli, moreVars>>

\* The shutdown goroutine: srv.Shutdown when it saw a server, else
\* hp.Close.  Shutdown closes the listener and makes Serve return at once;
\* hp.Close begins with hp.listener.Close().
ShutdownOrClose ==
    /\ run.gr = "read"
    /\ IF run.seen # NilServer
       THEN run' = [run EXCEPT !.gr = "shutting", !.shutdown = TRUE, !.listener = "closed"]
       ELSE run' = [run EXCEPT !.gr = "closing", !.listener = "closed"]
    /\ UNCHANGED <<coreVars, aborts, grp, tun, lh, cli, moreVars>>

\* hp.Close: hp.proxy.Close() is entered and the proxy is closing.
ProxyClose ==
    /\ run.gr = "closing"
    /\ run' = [run EXCEPT !.gr = "proxyclose", !.proxyClosing = TRUE]
    /\ UNCHANGED <<coreVars, aborts, grp, tun, lh, cli, moreVars>>

\* srv.Shutdown or hp.proxy.Close() returns, and with it the goroutine: the
\* deferred wg.Done().
ShutdownGoroutineDone ==
    /\ run.gr \in {"shutting", "proxyclose"}
    /\ run' = [run EXCEPT !.gr = "done", !.closed = (run.gr = "proxyclose")]
    /\ UNCHANGED <<coreVars, aborts, grp, tun, lh, cli, moreVars>>

\* Serve returns: a server that was shut down gives http.ErrServerClosed;
\* an Accept on the closed listener gives net.ErrClosed; the proxy's own
\* Serve gives nil when it finds the proxy closing.
ServeErrors ==
    IF run.shutdown THEN {"http.ErrServerClosed"}
    ELSE IF cfg.TestingHTTPHandler THEN {"net.ErrClosed"}
    ELSE IF run.proxyClosing THEN {"net.ErrClosed", "nil"}
    ELSE {"net.ErrClosed"}

ServeReturns ==
    /\ run.main = "serve"
    /\ run.listener = "closed"
    /\ \E srvErr \in ServeErrors :
           IF srvErr # "nil"
           THEN run' = [run EXCEPT !.main = "returned", !.ret = RunResult(srvErr)]
           ELSE run' = [run EXCEPT !.main = "wait"]
    /\ UNCHANGED <<coreVars, aborts, grp, tun, lh, cli, moreVars>>

\* wg.Wait() returns once the shutdown goroutine has called wg.Done().
WaitGroupNeverBlocks(r) ==
    TRUE

WaitGroupDone(r) ==
    r.gr = "done"

\* Run: wg.Wait() and return nil.
WaitReturns ==
    /\ run.main = "wait"
    /\ WaitGroupDone(run)
    /\ run' = [run EXCEPT !.main = "returned", !.ret = "nil", !.waited = TRUE]
    /\ UNCHANGED <<coreVars, aborts, grp, tun, lh, cli, moreVars>>

NextRun ==
    \/ StartShutdownGoroutine
    \/ Cancel
    \/ EnterServe
    \/ Accept
    \/ ReadServer
    \/ ShutdownOrClose
    \/ ProxyClose
    \/ ShutdownGoroutineDone
    \/ ServeReturns
    \/ WaitReturns

SpecRun == InitRun /\ [][NextRun]_vars

(***************************************************************************)
(* isLocalhost on the hostnames of requests, on machines that differ only  *)
(* in what public DNS would answer: lh.dns is that answer, lh.seen the     *)
(* classifications made.                                                   *)
(***************************************************************************)
\* The hostnames classified, and the names public DNS is asked about.
LocalHosts ==
    {"localhost", "127.0.0.1", "myhost", "dual", "internal.corp", "example.com", "nohost"}

DNSNames == {"myhost", "dual", "example.com"}

DNSAnswers == {"", "127.0.0.1", "93.184.216.34"}

InitLocal ==
    /\ sess = [s \in SessionIds |-> newSession(TRUE)]
    /\ calls = [s \in SessionIds |-> <<>>]
    /\ nextID = 0
    /\ ctxs = <<>>
    /\ gor = [g \in Goroutines |-> [pc |-> "idle", n |-> 0]]
    /\ cfg = DefaultHTTPProxyConfig
    /\ hp = NoProxy
    /\ sel = NoSel
    /\ loop = [id \in SessionIds |-> NoExchange]
    /\ aborts = <<>>
    /\ grp = <<>>
    /\ tun = <<>>
    /\ run = <<>>
    /\ \E dns \in [DNSNames -> DNSAnswers] : lh = [dns |-> dns, seen |-> {}]
    /\ cli = <<>>
    /\ MoreInit

\* hp.isLocalhost(req) for a request to hostname h.
Classify(h) ==
    /\ \A c \in lh.seen : c.host # h
    /\ lh' = [lh EXCEPT !.seen = @ \cup {[host |-> h, local |-> isLocalhost(h)]}]
    /\ UNCHANGED <<coreVars, aborts, grp, tun, run, cli, moreVars>>

NextLocal == \E h \in LocalHosts : Classify(h)

SpecLocal == InitLocal /\ [][NextLocal]_vars

(***************************************************************************)
(* The client helper (httpexpect.Client.do): one round trip, and the       *)
(* response synthesized from an error that carries a status text.          *)
(***************************************************************************)
MaxClientCalls == 2

\* http.StatusText for the codes 400..599: "" for a code without a text.
StatusText(i) ==
    CASE i = 400 -> "Bad Request"
      [] i = 401 -> "Unauthorized"
      [] i = 402 -> "Payment Required"
      [] i = 403 -> "Forbidden"
      [] i = 404 -> "Not Found"
      [] i = 405 -> "Method Not Allowed"
      [] i = 406 -> "Not Acceptable"
      [] i = 407 -> "Proxy Authentication Required"
      [] i = 408 -> "Request Timeout"
      [] i = 409 -> "Conflict"
      [] i = 410 -> "Gone"
      [] i = 411 -> "Length Required"
      [] i = 412 -> "Precondition Failed"
      [] i = 413 -> "Request Entity Too Large"
      [] i = 414 -> "Request URI Too Long"
      [] i = 415 -> "Unsupported Media Type"
      [] i = 416 -> "Requested Range Not Satisfiable"
      [] i = 417 -> "Expectation Failed"
      [] i = 418 -> "I'm a teapot"
      [] i = 421 -> "Misdirected Request"
      [] i = 422 -> "Unprocessable Entity"
      [] i = 423 -> "Locked"
      [] i = 424 -> "Failed Dependency"
      [] i = 425 -> "Too Early"
      [] i = 426 -> "Upgrade Required"
      [] i = 428 -> "Precondition Required"
      [] i = 429 -> "Too Many Requests"
      [] i = 431 -> "Request Header Fields Too Large"
      [] i = 451 -> "Unavailable For Legal Reasons"
      [] i = 500 -> "Internal Server Error"
      [] i = 501 -> "Not Implemented"
      [] i = 502 -> "Bad Gateway"
      [] i = 503 -> "Service Unavailable"
      [] i = 504 -> "Gateway Timeout"
      [] i = 505 -> "HTTP Version Not Supported"
      [] i = 506 -> "Variant Also Negotiates"
      [] i = 507 -> "Insufficient Storage"
      [] i = 508 -> "Loop Detected"
      [] i = 510 -> "Not Extended"
      [] i = 511 -> "Network Authentication Required"
      [] OTHER   -> ""

\* An error value (nil, or one with a message) and a response (nil, or one
\* with a status code and a status line).
NilError == [isnil |-> TRUE, msg |-> ""]

ErrorOf(m) == [isnil |-> FALSE, msg |-> m]

NilResponse == [isnil |-> TRUE, StatusCode |-> 0, Status |-> ""]

ResponseOf(code, status) == [isnil |-> FALSE, StatusCode |-> code, Status |-> status]

\* The loop of do: the first i of from..599, in ascending order, whose
\* status text is the message; 0 when there is none.
StatusSearch(msg, from) ==
    LET found == {i \in from..599 : msg = StatusText(i)}
    IN  IF found = {} THEN 0
        ELSE CHOOSE i \in found : \A j \in found : i <= j

\* do returning what the round trip gave.
doPassThrough(scheme, rt) ==
    [resp |-> rt.resp, err |-> rt.err]

\* do converting the error whatever the scheme of the request.
doAnyScheme(scheme, rt) ==
    IF ~rt.err.isnil /\ StatusSearch(rt.err.msg, 400) # 0
    THEN LET i == StatusSearch(rt.err.msg, 400)
         IN  [resp |-> ResponseOf(i, StatusText(i)), err |-> NilError]
    ELSE [resp |-> rt.resp, err |-> rt.err]

\* Client.do on a request with the given URL scheme whose round trip gave
\* rt = (resp, err).
do(scheme, rt) ==
    IF scheme = "https" /\ ~rt.err.isnil /\ StatusSearch(rt.err.msg, 400) # 0
    THEN LET i == StatusSearch(rt.err.msg, 400)
         IN  [resp |-> ResponseOf(i, StatusText(i)), err |-> NilError]
    ELSE [resp |-> rt.resp, err |-> rt.err]

\* What c.rt.RoundTrip can give: a response, or an error; the messages are
\* the status texts, a dial error and the empty message.
ErrorMessages ==
    {StatusText(i) : i \in 400..599} \cup {"dial tcp: connection refused"}

RoundTrips ==
    {[resp |-> ResponseOf(code, "OK"), err |-> NilError] : code \in {200, 503}}
        \cup {[resp |-> NilResponse, err |-> ErrorOf(m)] : m \in ErrorMessages}

Schemes == {"http", "https"}

InitClient ==
    /\ sess = [s \in SessionIds |-> newSession(TRUE)]
    /\ calls = [s \in SessionIds |-> <<>>]
    /\ nextID = 0
    /\ ctxs = <<>>
    /\ gor = [g \in Goroutines |-> [pc |-> "idle", n |-> 0]]
    /\ cfg = DefaultHTTPProxyConfig
    /\ hp = NoProxy
    /\ sel = NoSel
    /\ loop = [id \in SessionIds |-> NoExchange]
    /\ aborts = <<>>
    /\ grp = <<>>
    /\ tun = <<>>
    /\ run = <<>>
    /\ lh = <<>>
    /\ cli = <<>>
    /\ MoreInit

\* One call of do.
Do ==
    /\ Len(cli) < MaxClientCalls
    /\ \E scheme \in Schemes, rt \in RoundTrips :
           cli' = Append(cli, [scheme |-> scheme, rt |-> rt, out |-> do(scheme, rt)])
    /\ UNCHANGED <<coreVars, aborts, grp, tun, run, lh, moreVars>>

NextClient == Do

SpecClient == InitClient /\ [][NextClient]_vars

(***************************************************************************)
(* The proxy-string parser (pac.Proxies): a proxy string is a sequence of  *)
(* symbols, each a separator ";", a space " " or a word (a mode keyword,   *)
(* a host:port or something else) that holds neither.                      *)
(***************************************************************************)
MaxTokens == 3

\* pac.Mode, in the order of its enumeration (mode_string.go:11-17).
Modes == <<"DIRECT", "PROXY", "HTTP", "HTTPS", "SOCKS", "SOCKS4", "SOCKS5">>

\* Mode.String (mode_string.go:24-29).
ModeString(i) ==
    IF i < 0 \/ i >= Len(Modes) THEN "Mode(?)" ELSE Modes[i + 1]

ModeNames == {ModeString(i) : i \in 0..(Len(Modes) - 1)}

\* net.SplitHostPort on the words used as addresses.
SplitHostPort(w) ==
    CASE w = "a:1"    -> [host |-> "a", port |-> "1", err |-> "nil"]
      [] w = "b:2"    -> [host |-> "b", port |-> "2", err |-> "nil"]
      [] w = "s:1080" -> [host |-> "s", port |-> "1080", err |-> "nil"]
      [] OTHER        -> [host |-> "", port |-> "", err |-> "missing port in address"]

\* strings.Split(s, ";").
RECURSIVE SplitTokens(_)
SplitTokens(s) ==
    IF \A i \in 1..Len(s) : s[i] # ";"
    THEN <<s>>
    ELSE LET i == CHOOSE k \in 1..Len(s) : s[k] = ";" /\ \A j \in 1..(k - 1) : s[j] # ";"
         IN  <<SubSeq(s, 1, i - 1)>> \o SplitTokens(SubSeq(s, i + 1, Len(s)))

\* strings.TrimSpace.
RECURSIVE TrimSpace(_)
TrimSpace(t) ==
    IF t = <<>> THEN t
    ELSE IF Head(t) = " " THEN TrimSpace(Tail(t))
    ELSE IF t[Len(t)] = " " THEN TrimSpace(SubSeq(t, 1, Len(t) - 1))
    ELSE t

\* The whitespace-separated words of a token.
Fields(t) == SelectSeq(t, LAMBDA x : x # " ")

\* A candidate, and the result of parsing nothing.
Proxy(mode, host, port) == [Mode |-> mode, Host |-> host, Port |-> port]

NoCandidate == Proxy("", "", "")

\* Parsing a DIRECT token into a candidate that keeps an address.
ParseProxyKeepingAddress(t) ==
    LET w == Fields(t)
    IN  IF w = <<>> \/ w[1] \notin ModeNames
        THEN [p |-> NoCandidate, err |-> "invalid mode"]
        ELSE IF w[1] = "DIRECT"
        THEN [p |-> Proxy("DIRECT", "a", "1"), err |-> "nil"]
        ELSE IF Len(w) # 2 \/ SplitHostPort(w[2]).err # "nil"
        THEN [p |-> NoCandidate, err |-> "invalid address"]
        ELSE [p |-> Proxy(w[1], SplitHostPort(w[2]).host, SplitHostPort(w[2]).port),
              err |-> "nil"]

\* Parsing one trimmed token: the first word is the mode keyword, the
\* remainder, for every mode but DIRECT, is host:port.
ParseProxy(t) ==
    LET w == Fields(t)
    IN  IF w = <<>> \/ w[1] \notin ModeNames
        THEN [p |-> NoCandidate, err |-> "invalid mode"]
        ELSE IF w[1] = "DIRECT"
        THEN IF Len(w) = 1
             THEN [p |-> Proxy("DIRECT", "", ""), err |-> "nil"]
             ELSE [p |-> NoCandidate, err |-> "invalid address"]
        ELSE IF Len(w) # 2 \/ SplitHostPort(w[2]).err # "nil"
        THEN [p |-> NoCandidate, err |-> "invalid address"]
        ELSE [p |-> Proxy(w[1], SplitHostPort(w[2]).host, SplitHostPort(w[2]).port),
              err |-> "nil"]

\* The trimmed tokens of a proxy string that are not empty.
ProxyTokens(s) ==
    LET trimmed == [i \in 1..Len(SplitTokens(s)) |-> TrimSpace(SplitTokens(s)[i])]
    IN  SelectSeq(trimmed, LAMBDA t : t # <<>>)

\* Proxies.All: the full validated list, or a parse error.
All(s) ==
    LET toks == ProxyTokens(s)
        parsed == [i \in 1..Len(toks) |-> ParseProxy(toks[i])]
    IN  IF \E i \in 1..Len(toks) : parsed[i].err # "nil"
        THEN [all |-> <<>>,
              err |-> parsed[CHOOSE i \in 1..Len(toks) :
                                 /\ parsed[i].err # "nil"
                                 /\ \A j \in 1..(i - 1) : parsed[j].err = "nil"].err]
        ELSE [all |-> [i \in 1..Len(toks) |-> parsed[i].p], err |-> "nil"]

\* Proxies.First giving the last valid candidate.
FirstValidFromEnd(s) ==
    LET toks == ProxyTokens(s)
        valid == SelectSeq(toks, LAMBDA t : ParseProxy(t).err = "nil")
    IN  IF valid = <<>>
        THEN [p |-> NoCandidate, err |-> "no valid proxy"]
        ELSE [p |-> ParseProxy(valid[Len(valid)]).p, err |-> "nil"]

\* Proxies.First: just the first valid candidate.
FirstValid(s) ==
    LET toks == ProxyTokens(s)
        valid == SelectSeq(toks, LAMBDA t : ParseProxy(t).err = "nil")
    IN  IF valid = <<>>
        THEN [p |-> NoCandidate, err |-> "no valid proxy"]
        ELSE [p |-> ParseProxy(valid[1]).p, err |-> "nil"]

\* The tokens proxy strings are written from, spaces included.
RawTokens ==
    { <<>>, <<" ">>, <<"DIRECT">>, <<" ", "DIRECT">>,
      <<"PROXY", " ", "a:1">>, <<" ", "PROXY", " ", "b:2", " ">>,
      <<"HTTP", " ", "a:1">>, <<"HTTPS", " ", "b:2">>,
      <<"SOCKS", " ", "s:1080">>, <<"SOCKS4", " ", "s:1080">>,
      <<"SOCKS5", " ", " ", "s:1080">>,
      <<"PROXY">>, <<"PROXY", " ", "a">>, <<"BOGUS", " ", "a:1">> }

\* The proxy string written from a list of tokens: they are joined by ";".
RECURSIVE JoinTokens(_)
JoinTokens(ts) ==
    IF ts = <<>> THEN <<>>
    ELSE IF Len(ts) = 1 THEN ts[1]
    ELSE ts[1] \o <<";">> \o JoinTokens(Tail(ts))

TokenLists == UNION {[1..n -> RawTokens] : n \in 0..MaxTokens}

\* The string a PAC script returned, with the tokens it was written from;
\* all and first are what the two views gave for it, once asked.
InitPac ==
    /\ CoreIdle
    /\ AuxIdle
    /\ logs = <<>>
    /\ dnsCalls = <<>>
    /\ prop = <<>>
    /\ vals = <<>>
    /\ hdr = <<>>
    /\ hj = <<>>
    /\ \E ts \in TokenLists :
           pacs = [tokens |-> ts, s |-> JoinTokens(ts),
                   asked |-> {}, all |-> [all |-> <<>>, err |-> "nil"],
                   first |-> [p |-> NoCandidate, err |-> "nil"]]

\* Proxies(s).All().
CallAll ==
    /\ "All" \notin pacs.asked
    /\ pacs' = [pacs EXCEPT !.asked = @ \cup {"All"}, !.all = All(pacs.s)]
    /\ UNCHANGED <<baseVars, logs, dnsCalls, prop, vals, hdr, hj>>

\* Proxies(s).First().
CallFirst ==
    /\ "First" \notin pacs.asked
    /\ pacs' = [pacs EXCEPT !.asked = @ \cup {"First"}, !.first = FirstValid(pacs.s)]
    /\ UNCHANGED <<baseVars, logs, dnsCalls, prop, vals, hdr, hj>>

NextPac == CallAll \/ CallFirst

SpecPac == InitPac /\ [][NextPac]_vars

(***************************************************************************)
(* The HTTP logger (httplog.go:36-92): a Logger of one mode, the function  *)
(* LogFunc returns for it, and the calls of l.log that function makes.     *)
(***************************************************************************)
MaxEntries == 2

\* The modes a Logger is built with: the six named ones and the unset one.
LoggerModes == LogModes \cup {""}

\* The statuses of the entries logged.
EntryStatuses == {0, 200, 404, 407, 499, 500, 502, 599}

\* One call of l.log: the lines the logWriter was asked for.
LogRecord(line, dump, body) == [line |-> line, dump |-> dump, body |-> body]

\* The function of mode errors with the test turned into status <= 500.
LogCallsAboveOnly(mode, status) ==
    CASE mode \in {"", "none"} -> <<>>
      [] mode = "short-url" -> <<LogRecord("ShortURLLine", FALSE, FALSE)>>
      [] mode = "url"       -> <<LogRecord("URLLine", FALSE, FALSE)>>
      [] mode = "headers"   -> <<LogRecord("ShortURLLine", TRUE, FALSE)>>
      [] mode = "body"      -> <<LogRecord("ShortURLLine", TRUE, TRUE)>>
      [] mode = "errors"    -> IF status <= StatusInternalServerError
                               THEN <<>>
                               ELSE <<LogRecord("ShortURLLine", TRUE, FALSE)>>

\* The function Logger.LogFunc returns for the mode, applied to an entry
\* with the status: the calls of l.log it makes, in order.
LogCalls(mode, status) ==
    CASE mode \in {"", "none"} -> <<>>
      [] mode = "short-url" -> <<LogRecord("ShortURLLine", FALSE, FALSE)>>
      [] mode = "url"       -> <<LogRecord("URLLine", FALSE, FALSE)>>
      [] mode = "headers"   -> <<LogRecord("ShortURLLine", TRUE, FALSE)>>
      [] mode = "body"      -> <<LogRecord("ShortURLLine", TRUE, TRUE)>>
      [] mode = "errors"    -> IF status < StatusInternalServerError
                               THEN <<>>
                               ELSE <<LogRecord("ShortURLLine", TRUE, FALSE)>>

\* NewLogger(logFunc, mode).
InitLog ==
    /\ CoreIdle
    /\ AuxIdle
    /\ pacs = <<>>
    /\ dnsCalls = <<>>
    /\ prop = <<>>
    /\ vals = <<>>
    /\ hdr = <<>>
    /\ hj = <<>>
    /\ \E mode \in LoggerModes : logs = [mode |-> mode, entries |-> <<>>]

\* The middleware hands an entry to the log function.
LogEntry ==
    /\ Len(logs.entries) < MaxEntries
    /\ \E status \in EntryStatuses :
           logs' = [logs EXCEPT !.entries =
                        Append(@, [status |-> status, records |-> LogCalls(logs.mode, status)])]
    /\ UNCHANGED <<baseVars, pacs, dnsCalls, prop, vals, hdr, hj>>

NextLog == LogEntry

SpecLog == InitLog /\ [][NextLog]_vars

(***************************************************************************)
(* The PAC builtin dnsResolve (src/unnamed/part_002:19-35), called by a    *)
(* script with one argument, on a ProxyResolver whose config may carry a   *)
(* testing lookup.                                                         *)
(***************************************************************************)
MaxResolves == 2

\* The arguments a script passes: JavaScript values.
JSString(v) == [type |-> "string", v |-> v]

JSArguments ==
    {JSString("example.com"), JSString("nohost"),
     [type |-> "number", v |-> "42"], [type |-> "undefined", v |-> ""]}

\* asString: the Go string of a value that is a string.
asString(a) == [host |-> IF a.type = "string" THEN a.v ELSE "", ok |-> a.type = "string"]

\* What a lookup gives: an error, or addresses; a testing lookup is any
\* function and may also give no addresses and no error.
LookupFailed == [ips |-> <<>>, err |-> "no such host"]

LookupFound(ips) == [ips |-> ips, err |-> "nil"]

ResolverOutcomes ==
    {LookupFailed, LookupFound(<<(<<10, 0, 0, 5>>)>>),
     LookupFound(<<(<<127, 99, 0, 5>>), (<<10, 0, 0, 7>>)>>)}

TestingOutcomes == ResolverOutcomes \cup {LookupFound(<<>>)}

LookupNames == {"example.com", "nohost"}

\* pr.config.testingLookupIP: nil, or a function of the host name.
NilLookupIP == [isnil |-> TRUE, f |-> [h \in LookupNames |-> LookupFailed]]

TestingLookups ==
    {NilLookupIP} \cup {[isnil |-> FALSE, f |-> f] : f \in [LookupNames -> TestingOutcomes]}

\* pr.resolver.LookupIP(ctx, "ip4", host).
ResolverLookupIP(host) ==
    IF host = "example.com"
    THEN LookupFound(<<(<<10, 0, 0, 5>>), (<<10, 0, 0, 7>>)>>)
    ELSE LookupFailed

\* net.IP.String for the addresses used: the dotted-quad form.
IPString(ip) ==
    CASE ip = <<10, 0, 0, 5>>   -> "10.0.0.5"
      [] ip = <<10, 0, 0, 7>>   -> "10.0.0.7"
      [] ip = <<127, 99, 0, 5>> -> "127.99.0.5"
      [] ip = <<127, 0, 0, 1>>  -> "127.0.0.1"
      [] OTHER                  -> "?"

JSUndefined == [kind |-> "undefined", v |-> ""]

JSNull == [kind |-> "null", v |-> ""]

\* The call did not return: indexing the empty slice panicked.
IndexOutOfRange == [kind |-> "panic", v |-> "index out of range [0] with length 0"]

\* dnsResolve always asking the configured resolver.
dnsResolveResolverOnly(testingLookupIP, a) ==
    IF ~asString(a).ok THEN JSUndefined
    ELSE LET r == ResolverLookupIP(asString(a).host)
         IN  IF r.err # "nil" THEN JSNull
             ELSE IF r.ips = <<>> THEN IndexOutOfRange
             ELSE [kind |-> "string", v |-> IPString(r.ips[1])]

\* ProxyResolver.dnsResolve, on a config with the given testingLookupIP,
\* called with the argument a.
dnsResolve(testingLookupIP, a) ==
    IF ~asString(a).ok THEN JSUndefined
    ELSE LET host == asString(a).host
             r == IF testingLookupIP.isnil
                  THEN ResolverLookupIP(host)
                  ELSE testingLookupIP.f[host]
         IN  IF r.err # "nil" THEN JSNull
             ELSE IF r.ips = <<>> THEN IndexOutOfRange
             ELSE [kind |-> "string", v |-> IPString(r.ips[1])]

InitDNS ==
    /\ CoreIdle
    /\ AuxIdle
    /\ pacs = <<>>
    /\ logs = <<>>
    /\ prop = <<>>
    /\ vals = <<>>
    /\ hdr = <<>>
    /\ hj = <<>>
    /\ \E t \in TestingLookups :
           dnsCalls = [testingLookupIP |-> t, calls |-> <<>>]

\* The script calls dnsResolve(a).
CallDNSResolve ==
    /\ Len(dnsCalls.calls) < MaxResolves
    /\ \E a \in JSArguments :
           dnsCalls' = [dnsCalls EXCEPT !.calls =
                            Append(@, [arg |-> a,
                                       ret |-> dnsResolve(dnsCalls.testingLookupIP, a)])]
    /\ UNCHANGED <<baseVars, pacs, logs, prop, vals, hdr, hj>>

NextDNS == CallDNSResolve

SpecDNS == InitDNS /\ [][NextDNS]_vars

(***************************************************************************)
(* Propagation contexts (context.Context) and the martian Context attached *)
(* to them (context.go:54-70, 183-190).  A propagation context is the list *)
(* of the key-value pairs added to the background by WithValue, the latest *)
(* last; a martian Context is a pointer: its place in prop.heap.           *)
(***************************************************************************)
MaxHeap == 2

MaxAttached == 2

\* The keys: a key is a value of a named type, and keys of different
\* types differ even when their strings are equal.
martianKey == [type |-> "martian.contextKey", name |-> "martian.Context"]

TraceContextKey == [type |-> "log.contextKey", name |-> "trace"]

UserKeys ==
    {[type |-> "string", name |-> "martian.Context"], [type |-> "string", name |-> "trace"]}

NilPointer == 0

NilPropagation == [isnil |-> TRUE, pairs |-> <<>>]

\* context.Background().
Background == [isnil |-> FALSE, pairs |-> <<>>]

\* context.WithValue(parent, key, val).
WithValue(parent, key, val) ==
    [isnil |-> FALSE, pairs |-> Append(parent.pairs, [key |-> key, val |-> val])]

\* ctx.Value(key): the value of the latest pair with the key, nil if none.
Value(ctx, key) ==
    LET at == {i \in 1..Len(ctx.pairs) : ctx.pairs[i].key = key}
    IN  IF at = {} THEN [isnil |-> TRUE, ptr |-> NilPointer, str |-> <<>>]
        ELSE ctx.pairs[CHOOSE i \in at : \A j \in at : j <= i].val

\* A value held by a propagation context: a *Context, or a string.
PointerValue(p) == [isnil |-> FALSE, ptr |-> p, str |-> <<>>]

StringValue(s) == [isnil |-> FALSE, ptr |-> NilPointer, str |-> s]

\* FromContext: the *Context under martianKey, nil when there is none.
FromContext(ctx) ==
    LET v == Value(ctx, martianKey)
    IN  IF v.isnil THEN NilPointer ELSE v.ptr

\* addToContext leaving a context that is already attached in place.
addToContextOnce(heap, p, rctx) ==
    LET r == IF rctx.isnil THEN Background ELSE rctx
    IN  IF FromContext(r) # NilPointer THEN r
        ELSE WithValue(WithValue(r, martianKey, PointerValue(p)),
                       TraceContextKey, StringValue(ID(heap[p])))

\* Context.addToContext(rctx), for the Context at p of the heap.
addToContext(heap, p, rctx) ==
    LET r == IF rctx.isnil THEN Background ELSE rctx
        mctx == WithValue(r, martianKey, PointerValue(p))
    IN  WithValue(mctx, TraceContextKey, StringValue(ID(heap[p])))

\* The propagation contexts no martian Context was attached to.
PlainContexts ==
    {Background} \cup {WithValue(Background, k, StringValue(<<"u">>)) : k \in UserKeys}

InitProp ==
    /\ CoreIdle
    /\ AuxIdle
    /\ pacs = <<>>
    /\ logs = <<>>
    /\ dnsCalls = <<>>
    /\ vals = <<>>
    /\ hdr = <<>>
    /\ hj = <<>>
    /\ prop = [heap |-> <<>>, made |-> {}, attached |-> <<>>, asked |-> {}]

\* withSession builds a Context: n is the next value of the counter, so
\* the place in the heap.
NewContextOnHeap ==
    /\ Len(prop.heap) < MaxHeap
    /\ \E hash \in HashVals :
           prop' = [prop EXCEPT !.heap = Append(@, withSession("s1", Len(prop.heap) + 1, hash))]
    /\ UNCHANGED <<baseVars, pacs, logs, dnsCalls, vals, hdr, hj>>

\* c.addToContext(bg) and FromContext of what it gave; bg is nil, a plain
\* context or one made by an earlier addToContext.
Attach ==
    /\ Len(prop.attached) < MaxAttached
    /\ \E p \in 1..Len(prop.heap), bg \in {NilPropagation} \cup PlainContexts \cup prop.made :
           LET out == addToContext(prop.heap, p, bg)
           IN  prop' = [prop EXCEPT !.made = @ \cup {out},
                                    !.attached = Append(@, [c |-> p, bg |-> bg,
                                                            from |-> FromContext(out),
                                                            trace |-> Value(out, TraceContextKey)])]
    /\ UNCHANGED <<baseVars, pacs, logs, dnsCalls, vals, hdr, hj>>

\* FromContext of a context nothing was attached to.
AskPlain ==
    /\ \E bg \in PlainContexts :
           /\ \A a \in prop.asked : a.bg # bg
           /\ prop' = [prop EXCEPT !.asked = @ \cup {[bg |-> bg, from |-> FromContext(bg)]}]
    /\ UNCHANGED <<baseVars, pacs, logs, dnsCalls, vals, hdr, hj>>

NextProp == NewContextOnHeap \/ Attach \/ AskPlain

SpecProp == InitProp /\ [][NextProp]_vars

(***************************************************************************)
(* The header modifiers of the proxy (httplog.go:706-724).  A header is    *)
(* absent, or present with its list of values; hdr.creds is whether the    *)
(* proxy has a credentials matcher.                                        *)
(***************************************************************************)
MaxHeaderRequests == 2

AbsentHeader == [present |-> FALSE, values |-> <<>>]

PresentHeader(vs) == [present |-> TRUE, values |-> vs]

\* http.Header.Get: the first value of the header, "" when it has none.
HeaderGet(h) == IF h.present /\ h.values # <<>> THEN h.values[1] ELSE ""

\* Request.SetBasicAuth(username, password), for the matched user-info.
SetBasicAuth(req, userinfo) ==
    [req EXCEPT !.Authorization = PresentHeader(<<"Basic " \o userinfo>>)]

\* setBasicAuth setting the header whatever the request carries.
setBasicAuthOverwriting(creds, req) ==
    LET u == MatchURL([creds |-> creds], URL(req.host, ""))
    IN  IF u # "" THEN SetBasicAuth(req, u) ELSE req

\* HTTPProxy.setBasicAuth.
setBasicAuth(creds, req) ==
    IF HeaderGet(req.Authorization) = ""
    THEN LET u == MatchURL([creds |-> creds], URL(req.host, ""))
         IN  IF u # "" THEN SetBasicAuth(req, u) ELSE req
    ELSE req

\* setEmptyUserAgent.
setEmptyUserAgent(req) ==
    IF ~req.UserAgent.present
    THEN [req EXCEPT !.UserAgent = PresentHeader(<<"">>)]
    ELSE req

\* The requests: to a host the credentials cover (p1) or not, with the two
\* headers as a client can send them.
HeaderRequests ==
    [ host          : {"example.com", "p1"},
      Authorization : {AbsentHeader, PresentHeader(<<"">>), PresentHeader(<<"Bearer abc">>),
                       PresentHeader(<<"Basic own">>)},
      UserAgent     : {AbsentHeader, PresentHeader(<<"">>), PresentHeader(<<"curl/8">>)} ]

InitHdr ==
    /\ CoreIdle
    /\ AuxIdle
    /\ pacs = <<>>
    /\ logs = <<>>
    /\ dnsCalls = <<>>
    /\ prop = <<>>
    /\ vals = <<>>
    /\ hj = <<>>
    /\ \E creds \in BOOLEAN : hdr = [creds |-> creds, done |-> <<>>]

\* A request goes through the two modifiers, in the order of the stack.
ModifyHeaders ==
    /\ Len(hdr.done) < MaxHeaderRequests
    /\ \E req \in HeaderRequests :
           LET auth == setBasicAuth(hdr.creds, req)
           IN  hdr' = [hdr EXCEPT !.done =
                          Append(@, [before |-> req, auth |-> auth,
                                     after |-> setEmptyUserAgent(auth)])]
    /\ UNCHANGED <<baseVars, pacs, logs, dnsCalls, prop, vals, hj>>

NextHdr == ModifyHeaders

SpecHdr == InitHdr /\ [][NextHdr]_vars

(***************************************************************************)
(* The value maps (context.go:160-181, 202-224): one session, the          *)
(* Contexts built for its requests, and the vals map each of them owns.    *)
(***************************************************************************)
MaxValContexts == 2

MaxSets == 3

ValKeys == {"k1", "k2"}

ValValues == {"v1", "v2"}

\* A map[string]any: nil until the first Set; a missing key gives the
\* zero value and ok = false.
NilMap == [isnil |-> TRUE, m |-> [k \in ValKeys |-> [val |-> "", ok |-> FALSE]]]

MapSet(vs, k, v) ==
    [isnil |-> FALSE, m |-> [vs.m EXCEPT ![k] = [val |-> v, ok |-> TRUE]]]

MapGet(vs, k) == vs.m[k]

\* The objects: the session's vals, and each Context with its own.
NoValues == [svals |-> NilMap, ctx |-> <<>>]

\* Session.Set and Session.Get, on the session of the heap.
SessionSet(h, k, v) == [h EXCEPT !.svals = MapSet(@, k, v)]

SessionGet(h, k) == MapGet(h.svals, k)

\* Context.Session().
ContextSession(h, i) == h.ctx[i].session

\* Context.Set writing into the map of the session.
ContextSetInSession(h, i, k, v) ==
    [h EXCEPT !.svals = MapSet(@, k, v)]

\* Context.Set and Context.Get, on the i-th Context of the heap.
ContextSet(h, i, k, v) == [h EXCEPT !.ctx[i].vals = MapSet(@, k, v)]

ContextGet(h, i, k) == MapGet(h.ctx[i].vals, k)

\* vals.heap is the objects; vals.last is what was last set through the
\* session (index 0) and through each Context, kept by the callers.
InitVals ==
    /\ CoreIdle
    /\ AuxIdle
    /\ pacs = <<>>
    /\ logs = <<>>
    /\ dnsCalls = <<>>
    /\ prop = <<>>
    /\ hdr = <<>>
    /\ hj = <<>>
    /\ vals = [heap |-> NoValues, sets |-> 0,
               last |-> [i \in 0..MaxValContexts |-> [k \in ValKeys |-> ""]]]

\* A request arrives on the connection: withSession builds its Context.
NewRequestContext ==
    /\ Len(vals.heap.ctx) < MaxValContexts
    /\ vals' = [vals EXCEPT !.heap.ctx = Append(@, [session |-> "s", vals |-> NilMap])]
    /\ UNCHANGED <<baseVars, pacs, logs, dnsCalls, prop, hdr, hj>>

\* A modifier calls ctx.Session().Set(k, v) through the i-th Context.
CallSessionSet ==
    /\ vals.sets < MaxSets
    /\ \E i \in 1..Len(vals.heap.ctx), k \in ValKeys, v \in ValValues :
           /\ ContextSession(vals.heap, i) = "s"
           /\ vals' = [vals EXCEPT !.heap = SessionSet(@, k, v),
                                   !.sets = @ + 1,
                                   !.last[0][k] = v]
    /\ UNCHANGED <<baseVars, pacs, logs, dnsCalls, prop, hdr, hj>>

\* A modifier calls ctx.Set(k, v) on the i-th Context.
CallContextSet ==
    /\ vals.sets < MaxSets
    /\ \E i \in 1..Len(vals.heap.ctx), k \in ValKeys, v \in ValValues :
           vals' = [vals EXCEPT !.heap = ContextSet(@, i, k, v),
                                !.sets = @ + 1,
                                !.last[i][k] = v]
    /\ UNCHANGED <<baseVars, pacs, logs, dnsCalls, prop, hdr, hj>>

NextVals == NewRequestContext \/ CallSessionSet \/ CallContextSet

SpecVals == InitVals /\ [][NextVals]_vars

(***************************************************************************)
(* Goroutines calling Hijack and HijackResponseWriter on one session       *)
(* (context.go:111-150).  hj.s is the session, hj.mu the goroutine holding *)
(* s.mu ("" when free), hj.g the position of every caller inside its call: *)
(* "idle", "lock" (at s.mu.Lock()), "check" (at `if s.hijacked`), "body"   *)
(* (past the check, seen holding what the check read), "unlock" (at the    *)
(* deferred s.mu.Unlock(), err holding the result).  hj.results lists the  *)
(* calls that returned, in the order of their return.                      *)
(***************************************************************************)
HijackCallers == {"h1", "h2", "h3"}

HijackOps == {"Hijack", "HijackResponseWriter"}

MaxCallsEach == 2

IdleCaller == [pc |-> "idle", op |-> "", seen |-> FALSE, err |-> "", n |-> 0]

\* s.mu.Lock() goes through only while nobody holds the mutex.
MutexAlwaysFree(mu) ==
    TRUE

MutexFree(mu) ==
    mu = ""

InitHijack ==
    /\ CoreIdle
    /\ AuxIdle
    /\ pacs = <<>>
    /\ logs = <<>>
    /\ dnsCalls = <<>>
    /\ prop = <<>>
    /\ vals = <<>>
    /\ hdr = <<>>
    /\ \E s \in NewSessions :
           hj = [s |-> s, mu |-> "", g |-> [h \in HijackCallers |-> IdleCaller],
                 results |-> <<>>]

\* A goroutine calls one of the two methods.
BeginHijackCall(h, op) ==
    /\ hj.g[h].pc = "idle"
    /\ hj.g[h].n < MaxCallsEach
    /\ hj' = [hj EXCEPT !.g[h].pc = "lock", !.g[h].op = op, !.g[h].n = @ + 1]
    /\ UNCHANGED <<baseVars, pacs, logs, dnsCalls, prop, vals, hdr>>

\* s.mu.Lock().
LockSession(h) ==
    /\ hj.g[h].pc = "lock"
    /\ MutexFree(hj.mu)
    /\ hj' = [hj EXCEPT !.mu = h, !.g[h].pc = "check"]
    /\ UNCHANGED <<baseVars, pacs, logs, dnsCalls, prop, vals, hdr>>

\* if s.hijacked { return ..., error }.
CheckHijacked(h) ==
    /\ hj.g[h].pc = "check"
    /\ hj' = [hj EXCEPT !.g[h].pc = "body", !.g[h].seen = hj.s.hijacked]
    /\ UNCHANGED <<baseVars, pacs, logs, dnsCalls, prop, vals, hdr>>

\* The rest of the method on what the check read.  Past the check Hijack
\* always assigns s.hijacked (the deferred function), HijackResponseWriter
\* only when it succeeds.
HijackBody(h) ==
    /\ hj.g[h].pc = "body"
    /\ LET asSeen == [hj.s EXCEPT !.hijacked = hj.g[h].seen]
           r == IF hj.g[h].op = "Hijack" THEN Hijack(asSeen)
                ELSE HijackResponseWriter(asSeen)
       IN  hj' = [hj EXCEPT !.g[h].pc = "unlock", !.g[h].err = r.err,
                            !.s.hijacked = IF hj.g[h].seen THEN @
                                           ELSE IF hj.g[h].op = "Hijack" THEN r.s.hijacked
                                           ELSE IF r.s.hijacked THEN TRUE ELSE @]
    /\ UNCHANGED <<baseVars, pacs, logs, dnsCalls, prop, vals, hdr>>

\* The deferred s.mu.Unlock() and the return of the call.
UnlockSession(h) ==
    /\ hj.g[h].pc = "unlock"
    /\ hj' = [hj EXCEPT !.mu = "", !.g[h].pc = "idle",
                        !.results = Append(@, [by |-> h, op |-> hj.g[h].op,
                                               err |-> hj.g[h].err])]
    /\ UNCHANGED <<baseVars, pacs, logs, dnsCalls, prop, vals, hdr>>

NextHijack ==
    \E h \in HijackCallers :
        \/ \E op \in HijackOps : BeginHijackCall(h, op)
        \/ LockSession(h)
        \/ CheckHijacked(h)
        \/ HijackBody(h)
        \/ UnlockSession(h)

SpecHijack == InitHijack /\ [][NextHijack]_vars

(***************************************************************************)
(* The proxy serving its sessions: s1 is a connection the proxy accepted   *)
(* and serves in a request loop, s2 is the session of one request handed   *)
(* to the proxy's http.Handler by an http.Server.                          *)
(***************************************************************************)
\* The configurations the proxy is run with: constructible ones, with a PAC
\* resolver or no upstream.
ServedConfigs ==
    { c \in Configs :
        /\ newHTTPProxy(c).state = "ok"
        /\ ~c.UpstreamProxyFunc /\ c.UpstreamProxy = NilURL /\ ~c.DirectDomains
        /\ c.creds /\ c.LogHTTPMode = "errors" /\ ~c.PromRegistry }

Init ==
    /\ cfg \in ServedConfigs
    /\ hp = newHTTPProxy(cfg)
    /\ sel = NoSel
    /\ \E rw \in {"hijacker", "plain"} :
           sess = [id \in SessionIds |->
                      IF id = "s1" THEN newSession(TRUE) ELSE newSessionWithResponseWriter(rw)]
    /\ calls = [s \in SessionIds |-> <<>>]
    /\ nextID = 0
    /\ ctxs = <<>>
    /\ gor = [g \in Goroutines |-> [pc |-> "idle", n |-> 0]]
    /\ loop = [id \in SessionIds |-> NoExchange]
    /\ AuxInit

\* The requests a session carries: a connection up to MaxRequests, the
\* session of a handler call one.
Carries(id) == IF sess[id].conn THEN MaxRequests ELSE 1

\* The proxy reads the next request of the session and mints its context
\* (withSession takes the next value of nextID).
ReadRequest(id) ==
    /\ loop[id].pc = "read"
    /\ loop[id].served < Carries(id)
    /\ \E req \in Requests(cfg, sess[id]) :
           loop' = [loop EXCEPT ![id] =
                       [NoExchange EXCEPT !.pc = "modreq", !.served = loop[id].served + 1,
                                          !.reads = loop[id].reads + 1,
                                          !.writes = loop[id].writes,
                                          !.skips = loop[id].skips,
                                          !.skipRoundTrip =
                                              SkippingRoundTrip(
                                                  withSession(id, NextIDAdd(nextID), 0)),
                                          !.req = req]]
    /\ nextID' = NextIDAdd(nextID)
    /\ UNCHANGED <<sessVars, ctxs, gor, cfgVars, auxVars>>

\* The read finds the stream at its end: the loop ends, the connection is closed.
ReadEOF(id) ==
    /\ loop[id].pc = "read"
    /\ sess[id].conn
    /\ loop' = [loop EXCEPT ![id].pc = "closed", ![id].reads = @ + 1]
    /\ UNCHANGED <<sessVars, ctxVars, cfgVars, auxVars>>

\* The Context of the current exchange of the session: its session and its flag.
ExchangeContext(id) ==
    [NoContext EXCEPT !.session = id, !.skipRoundTrip = loop[id].skipRoundTrip]

\* The response a modifier plants on the context before SkipRoundTrip.
PlantedResponse == [status |-> StatusOK, close |-> FALSE, by |-> "modifier"]

\* The request-modifier pipeline runs on the request.  A session found
\* hijacked afterwards is abandoned; a panic ends the goroutine; a modifier
\* error on a session not hijacked is answered with the error response; a
\* context that says SkippingRoundTrip has its planted response written
\* without upstream selection or round trip.
RunRequestModifiers(id) ==
    /\ loop[id].pc = "modreq"
    /\ LET st == RunGroup(RequestModifiers(cfg), cfg, loop[id].req,
                          PipelineStart(sess[id], ExchangeContext(id)))
           pc == IF st.err = "panic" THEN "panic"
                 ELSE IF Hijacked(st.s) THEN "closed"
                 ELSE IF st.err # "nil" THEN "error"
                 ELSE IF SkippingRoundTrip(st.ctx) THEN "write"
                 ELSE "roundtrip"
           skipped == pc = "write"
       IN  /\ sess' = [sess EXCEPT ![id] = st.s]
           /\ loop' = [loop EXCEPT ![id].ran = st.ran, ![id].aborted = st.aborted,
                                   ![id].out = IF skipped THEN Append(st.out, PlantedResponse)
                                               ELSE st.out,
                                   ![id].handed = st.handed,
                                   ![id].skipRoundTrip = SkippingRoundTrip(st.ctx),
                                   ![id].skips = IF skipped THEN @ + 1 ELSE @,
                                   ![id].pc = pc]
    /\ UNCHANGED <<calls, ctxVars, cfgVars, auxVars>>

\* The proxy writes the error response for a modifier error and closes.
WriteErrorResponse(id) ==
    /\ loop[id].pc = "error"
    /\ loop' = [loop EXCEPT ![id].pc = "closed", ![id].writes = @ + 1,
                            ![id].out = Append(@, [status |-> StatusBadGateway,
                                                   close |-> TRUE, by |-> "proxy"])]
    /\ UNCHANGED <<sessVars, ctxVars, cfgVars, auxVars>>

\* The outcome of the upstream leg for a request to host h when the
\* proxies of down refuse the dial: the selections made, the dials made,
\* the calls that reached the base selector, the upstream used ("origin"
\* for DIRECT) and the status.
UpstreamLeg(pf, c, h, down) ==
    IF pf.base = "nil"
    THEN [sels |-> 0, baseCalls |-> 0, dials |-> <<"origin">>, via |-> "origin",
          status |-> StatusOK]
    ELSE LET r == CallProxyFunc(pf, c, h)
             target == IF r.url = NilURL THEN "origin" ELSE r.url.host
         IN  IF r.err # "nil"
             THEN [sels |-> 1, baseCalls |-> r.baseCalls, dials |-> <<>>, via |-> "",
                   status |-> StatusBadGateway]
             ELSE IF target \in down
             THEN [sels |-> 1, baseCalls |-> r.baseCalls, dials |-> <<target>>, via |-> "",
                   status |-> StatusBadGateway]
             ELSE [sels |-> 1, baseCalls |-> r.baseCalls, dials |-> <<target>>,
                   via |-> target, status |-> StatusOK]

\* Upstream selection, dial and round trip for the request.
RoundTrip(id) ==
    /\ loop[id].pc = "roundtrip"
    /\ \E down \in DownSets :
           LET leg == UpstreamLeg(hp.proxyFunc, cfg, loop[id].req.host, down)
           IN  loop' = [loop EXCEPT ![id].pc = "write", ![id].sels = leg.sels,
                                    ![id].baseCalls = leg.baseCalls,
                                    ![id].dials = leg.dials,
                                    ![id].down = {t \in down : \E i \in 1..Len(leg.dials) :
                                                                  leg.dials[i] = t},
                                    ![id].via = leg.via,
                                    ![id].trips = IF leg.via # "" THEN 1 ELSE 0,
                                    ![id].out = Append(@, [status |-> leg.status,
                                                           close |-> FALSE, by |-> "proxy"])]
    /\ UNCHANGED <<sessVars, ctxVars, cfgVars, auxVars>>

\* The proxy writes the response.  On a connection the session is closed
\* after the flush if CloseAfterReply is set or the request asked for it,
\* and the loop goes on to the next request otherwise; a handler call
\* returns.
WriteResponse(id) ==
    /\ loop[id].pc = "write"
    /\ LET next == IF ~sess[id].conn THEN "closed"
                   ELSE IF CloseAfterReply(cfg) \/ loop[id].req.close THEN "closed"
                   ELSE "read"
       IN  loop' = [loop EXCEPT ![id].pc = next, ![id].writes = @ + 1]
    /\ UNCHANGED <<sessVars, ctxVars, cfgVars, auxVars>>

Next ==
    \E id \in SessionIds :
        \/ ReadRequest(id)
        \/ ReadEOF(id)
        \/ RunRequestModifiers(id)
        \/ WriteErrorResponse(id)
        \/ RoundTrip(id)
        \/ WriteResponse(id)

Spec == Init /\ [][Next]_vars

(***************************************************************************)
(* C1.  Original statement: for any session and any two successive calls   *)
(* drawn from Hijack() and HijackResponseWriter(), the second call returns *)
(* an error.                                                               *)
(***************************************************************************)
C1_SecondCallFails ==
    \A id \in SessionIds : \A i \in 1..Len(calls[id]) :
        (Backed(sess[id]) /\ i > 1) => calls[id][i].err # "nil"

(***************************************************************************)
(* C1 as amended: of any two successive calls drawn from Hijack() and      *)
(* HijackResponseWriter() on one session, the second returns an error      *)
(* whenever the first one succeeded (and so does every later call).        *)
(***************************************************************************)
C1_CallAfterSuccessFails ==
    \A id \in SessionIds : \A i, j \in 1..Len(calls[id]) :
        (i < j /\ calls[id][i].err = "nil") => calls[id][j].err \notin {"nil", "panic"}

\* A session whose first call succeeded has answered a second call.
C1_Witness ==
    \E id \in SessionIds :
        /\ Len(calls[id]) >= 2
        /\ calls[id][1].err = "nil"
        /\ calls[id][2].err = "already hijacked"

\* How many of the three upstream sources a configuration supplies.
SourcesSupplied(c) ==
    (IF c.UpstreamProxyFunc THEN 1 ELSE 0) + (IF c.UpstreamProxy # NilURL THEN 1 ELSE 0)
        + (IF c.pac THEN 1 ELSE 0)

(***************************************************************************)
(* C5.  Original statement: construction succeeds only if at most one of   *)
(* the custom upstream function, the static upstream URL and the PAC        *)
(* resolver is supplied; every configuration with two or more is rejected. *)
(***************************************************************************)
C5_AtMostOneSourceSupplied ==
    hp.state = "ok" => SourcesSupplied(cfg) <= 1

(***************************************************************************)
(* C5 as amended: construction rejects every configuration that supplies   *)
(* both a static upstream URL and a PAC resolver, and of the source        *)
(* combinations only that one; a custom function supplied with a static    *)
(* URL or with a PAC resolver is accepted and is then the one selector of  *)
(* the constructed proxy.                                                  *)
(***************************************************************************)
C5_OnlyStaticWithPACRejected ==
    /\ hp.state = "ok" => ~(cfg.UpstreamProxy # NilURL /\ cfg.pac)
    /\ (hp.state = "error" /\ isValid(cfg.ProxyLocalhost)) =>
           (cfg.UpstreamProxy # NilURL /\ cfg.pac)
    /\ (hp.state = "ok" /\ cfg.UpstreamProxyFunc) => hp.proxyFunc.base = "func"

\* A static URL with a PAC resolver was rejected.
C5_Witness ==
    /\ hp.state = "error"
    /\ isValid(cfg.ProxyLocalhost)
    /\ cfg.UpstreamProxy # NilURL /\ cfg.pac /\ ~cfg.UpstreamProxyFunc

(***************************************************************************)
(* C6.  In every constructed proxy the base selector is the custom         *)
(* function if set, otherwise the static upstream URL if set, otherwise    *)
(* the PAC resolver if set, otherwise none; with none, the selector stays  *)
(* nil even when direct-domains and direct-localhost are configured.       *)
(***************************************************************************)
C6_BaseSelectorByPriority ==
    hp.state = "ok" =>
        /\ cfg.UpstreamProxyFunc => hp.proxyFunc.base = "func"
        /\ (~cfg.UpstreamProxyFunc /\ cfg.UpstreamProxy # NilURL) =>
               hp.proxyFunc.base = "static"
        /\ (~cfg.UpstreamProxyFunc /\ cfg.UpstreamProxy = NilURL /\ cfg.pac) =>
               hp.proxyFunc.base = "pac"
        /\ SourcesSupplied(cfg) = 0 => hp.proxyFunc = NilProxyFunc

\* A proxy built with a custom function and a static URL, both wrappers configured.
C6_Witness ==
    /\ hp.state = "ok"
    /\ cfg.UpstreamProxyFunc /\ cfg.UpstreamProxy # NilURL
    /\ cfg.DirectDomains /\ cfg.ProxyLocalhost = DirectProxyLocalhost

\* What the base selector of a configuration yields for a host, before any
\* credential is attached.
YieldedURL(c, h) ==
    CASE BaseProxyFunc(c) = "func"   -> UpstreamProxyFunc(h).url
      [] BaseProxyFunc(c) = "static" -> c.UpstreamProxy
      [] BaseProxyFunc(c) = "pac"    ->
             IF FindProxyForURL(h).err = "nil"
             THEN ProxyURL(First(FindProxyForURL(h).s)) ELSE NilURL
      [] OTHER -> NilURL

\* The last call of hp.proxyFunc reached the base selector, which yielded a proxy.
BaseYielded ==
    sel.called /\ sel.baseCalls = 1 /\ sel.err = "nil" /\ YieldedURL(cfg, sel.host) # NilURL

\* The URL carries the matched user-info when it had none, and is unchanged
\* when it had its own.
CredentialsAttached ==
    LET y == YieldedURL(cfg, sel.host)
    IN  /\ (y.user = "" /\ MatchURL(cfg, y) # "") => sel.url = URL(y.host, MatchURL(cfg, y))
        /\ y.user # "" => sel.url = y

(***************************************************************************)
(* C7.  Original statement: for every kind of upstream selector (custom    *)
(* function, static URL, PAC), a yielded proxy URL without user-info for   *)
(* which the credential matcher has a match is used with the matched       *)
(* user-info, and one that has user-info is used unchanged.                *)
(***************************************************************************)
C7_EverySelectorAttachesCredentials ==
    BaseYielded => CredentialsAttached

(***************************************************************************)
(* C7 as amended: for the static URL and the PAC selector, a yielded proxy *)
(* URL without user-info for which the credential matcher has a match is   *)
(* used with the matched user-info, and one that has user-info is used     *)
(* unchanged; the URL a custom function yields is used as it is, the       *)
(* credential matcher is not consulted for it.                             *)
(***************************************************************************)
C7_StaticAndPACAttachCredentials ==
    BaseYielded =>
        IF hp.proxyFunc.base = "func"
        THEN sel.url = YieldedURL(cfg, sel.host)
        ELSE CredentialsAttached

\* A static URL with user-info of its own was used although the matcher matches it.
C7_Witness ==
    /\ BaseYielded
    /\ hp.proxyFunc.base = "static"
    /\ cfg.UpstreamProxy.user = "own"
    /\ MatchURL(cfg, cfg.UpstreamProxy) # ""
    /\ sel.url = cfg.UpstreamProxy

\* The request of the last call is one the wrappers answer DIRECT.
AnsweredDirect ==
    \/ cfg.DirectDomains /\ DirectDomainsMatch(sel.host)
    \/ cfg.ProxyLocalhost = DirectProxyLocalhost /\ isLocalhost(sel.host)

(***************************************************************************)
(* C8.  The composed upstream function returns DIRECT (nil URL, nil error) *)
(* without invoking the base selector if the request hostname matches the  *)
(* direct-domain set, or if ProxyLocalhost=direct and the hostname is      *)
(* classified localhost; for every other request it returns exactly the    *)
(* URL and error the base selector returns.                                *)
(***************************************************************************)
C8_DirectWrappers ==
    sel.called =>
        IF AnsweredDirect
        THEN sel.url = NilURL /\ sel.err = "nil" /\ sel.baseCalls = 0
        ELSE /\ sel.baseCalls = 1
             /\ sel.url = CallBase(hp.proxyFunc, cfg, sel.host).url
             /\ sel.err = CallBase(hp.proxyFunc, cfg, sel.host).err

\* A direct-domain request was answered DIRECT although the base selector
\* would have named a proxy.
C8_Witness ==
    /\ sel.called
    /\ cfg.DirectDomains /\ DirectDomainsMatch(sel.host)
    /\ ~isLocalhost(sel.host)
    /\ CallBase(hp.proxyFunc, cfg, sel.host).url # NilURL
    /\ sel.url = NilURL /\ sel.baseCalls = 0

(***************************************************************************)
(* C2.  Once a session has been successfully hijacked, the proxy's request *)
(* loop performs no further read or write on that session's stream: it     *)
(* neither parses another request from it nor writes a response to it.     *)
(***************************************************************************)
C2_NoProxyIOAfterHijack ==
    [][\A id \in SessionIds :
          (Hijacked(sess[id]) \/ loop[id].handed) =>
              /\ loop'[id].reads = loop[id].reads
              /\ loop'[id].writes = loop[id].writes
              /\ loop'[id].served = loop[id].served
              /\ loop'[id].out = loop[id].out]_vars

\* The second request of a kept-alive connection was aborted: the session
\* is hijacked, the hijacker wrote the response and the loop has ended.
C2_Witness ==
    /\ Hijacked(sess["s1"]) /\ loop["s1"].handed
    /\ loop["s1"].served = 2 /\ loop["s1"].reads = 2 /\ loop["s1"].writes = 1
    /\ Len(loop["s1"].out) = 1 /\ loop["s1"].out[1].by = "denyDomains"
    /\ loop["s1"].pc = "closed"

\* The target a candidate of a proxy string is dialled at.
DialTarget(p) == IF p.mode = "DIRECT" THEN "origin" ELSE p.host

\* The exchange of the session went through the PAC selector, whose script
\* returned a proxy string.
SelectedByPAC(id) ==
    /\ hp.proxyFunc.base = "pac"
    /\ loop[id].baseCalls = 1
    /\ FindProxyForURL(loop[id].req.host).err = "nil"

\* The targets of the candidates of s that accept a dial, in the order of s.
Reachable(s, down) == SelectSeq(s, LAMBDA p : DialTarget(p) \notin down)

(***************************************************************************)
(* C4.  Original statement: when the PAC script returns an ordered list of *)
(* several candidates and dialing the first fails, the request is sent     *)
(* through the next candidate: the candidate used for a request is the     *)
(* first one in PAC order whose dial succeeds.                             *)
(***************************************************************************)
C4_FirstReachableCandidateUsed ==
    \A id \in SessionIds :
        LET ok == Reachable(FindProxyForURL(loop[id].req.host).s, loop[id].down)
        IN  (SelectedByPAC(id) /\ ok # <<>>) => loop[id].via = DialTarget(ok[1])

(***************************************************************************)
(* C4 as amended: when the PAC script returns an ordered list of several   *)
(* candidates, the first candidate of the list is the only one used: the   *)
(* proxy dials that candidate alone, and when that dial fails the request  *)
(* fails with 502 and no later candidate is tried.                         *)
(***************************************************************************)
C4_OnlyFirstCandidateDialled ==
    \A id \in SessionIds :
        LET first == DialTarget(FindProxyForURL(loop[id].req.host).s[1])
        IN  SelectedByPAC(id) =>
                /\ loop[id].dials = <<first>>
                /\ first \notin loop[id].down =>
                       loop[id].via = first /\ loop[id].out[1].status = StatusOK
                /\ first \in loop[id].down =>
                       /\ loop[id].via = "" /\ loop[id].trips = 0
                       /\ loop[id].out[1].status = StatusBadGateway

\* "PROXY p1; DIRECT" with p1 refusing the dial: p1 alone was dialled and
\* the request failed.
C4_Witness ==
    /\ SelectedByPAC("s1")
    /\ Len(FindProxyForURL(loop["s1"].req.host).s) = 2
    /\ FindProxyForURL(loop["s1"].req.host).s[2].mode = "DIRECT"
    /\ loop["s1"].down = {"p1"}
    /\ loop["s1"].dials = <<"p1">>
    /\ loop["s1"].via = ""

\* The place of a modifier in the order the claim C9 states.
PolicyRank(m) ==
    CASE m = "basicAuth" -> 1 [] m = "denyLocalhost" -> 2 [] m = "denyDomains" -> 3
      [] OTHER -> 4

\* The policy modifiers a configuration asks for.
PolicyConfigured(c) ==
    (IF c.BasicAuth THEN {"basicAuth"} ELSE {})
        \cup (IF c.ProxyLocalhost = DenyProxyLocalhost THEN {"denyLocalhost"} ELSE {})
        \cup (IF c.DenyDomains THEN {"denyDomains"} ELSE {})

\* The pipeline has run on the current request of the session.
PipelineRan(id) == loop[id].served > 0 /\ loop[id].pc # "modreq"

(***************************************************************************)
(* C9.  On every request the top-group policy modifiers run in the order   *)
(* basic-auth, deny-localhost, deny-domains before any modifier of the     *)
(* httpspec stack or of the inner group fg, and when one of them aborts    *)
(* the request no later modifier runs for that request: neither a later    *)
(* policy modifier, nor the stack, nor the logger, nor any user-supplied   *)
(* request modifier.                                                       *)
(***************************************************************************)
C9_PolicyModifiersRunFirst ==
    \A id \in SessionIds :
        LET r == loop[id].ran
            a == loop[id].aborted
        IN  PipelineRan(id) =>
                /\ \A i, j \in 1..Len(r) :
                       i < j => /\ PolicyRank(r[i]) <= PolicyRank(r[j])
                                /\ PolicyRank(r[i]) < 4 => PolicyRank(r[i]) < PolicyRank(r[j])
                /\ \A m \in PolicyConfigured(cfg) :
                       \/ \E i \in 1..Len(r) : r[i] = m
                       \/ PolicyRank(a) < PolicyRank(m)
                /\ \A i \in 1..Len(r) : PolicyRank(r[i]) < 4 => r[i] \in PolicyConfigured(cfg)
                /\ PolicyRank(a) < 4 => r[Len(r)] = a

\* deny-localhost aborted a request that passed basic-auth, with deny-domains
\* configured behind it.
C9_Witness ==
    /\ PipelineRan("s1")
    /\ cfg.DenyDomains
    /\ loop["s1"].ran = <<"basicAuth", "denyLocalhost">>
    /\ loop["s1"].aborted = "denyLocalhost"

\* The hostnames of RequestHosts that are localhost: the literal, and the
\* name the hosts file maps to 127.99.0.5.
ClassifiedLocalhost(h) == h \in {"localhost", "myhost"}

\* No upstream selection, dial or round trip was made for the exchange.
NoUpstreamLeg(id) ==
    loop[id].sels = 0 /\ loop[id].dials = <<>> /\ loop[id].trips = 0 /\ loop[id].via = ""

\* The exchange of the session is a request to localhost under ProxyLocalhost=deny.
DeniedLocalhost(id) ==
    /\ PipelineRan(id)
    /\ cfg.ProxyLocalhost = DenyProxyLocalhost
    /\ ClassifiedLocalhost(loop[id].req.host)

(***************************************************************************)
(* C10.  Original statement: with ProxyLocalhost=deny, every request whose *)
(* URL hostname is classified localhost is answered with status 403 and no *)
(* upstream selection, outbound dial or round trip is performed for it.    *)
(***************************************************************************)
C10_LocalhostAnswered403 ==
    \A id \in SessionIds :
        DeniedLocalhost(id) =>
            /\ NoUpstreamLeg(id)
            /\ Len(loop[id].out) = 1 /\ loop[id].out[1].status = StatusForbidden

(***************************************************************************)
(* C10 as amended: with ProxyLocalhost=deny, no upstream selection,        *)
(* outbound dial or round trip is performed for a request whose URL        *)
(* hostname is classified localhost, and the request is answered with      *)
(* status 403, unless BasicAuth is configured and the request lacks the    *)
(* proxy credentials: the basic-auth modifier runs first and answers 407.  *)
(***************************************************************************)
C10_LocalhostDeniedWithoutUpstream ==
    \A id \in SessionIds :
        DeniedLocalhost(id) =>
            /\ NoUpstreamLeg(id)
            /\ Len(loop[id].out) = 1
            /\ loop[id].out[1].status =
                   IF cfg.BasicAuth /\ ~loop[id].req.auth
                   THEN StatusProxyAuthRequired ELSE StatusForbidden
            /\ loop[id].out[1].by =
                   IF cfg.BasicAuth /\ ~loop[id].req.auth THEN "basicAuth" ELSE "denyLocalhost"

\* A request to a name the hosts file maps to a loopback address was
\* answered 403 by deny-localhost, after passing basic-auth.
C10_Witness ==
    /\ DeniedLocalhost("s2")
    /\ cfg.BasicAuth /\ loop["s2"].req.auth
    /\ loop["s2"].req.host = "myhost"
    /\ loop["s2"].out = <<[status |-> StatusForbidden, close |-> TRUE, by |-> "denyLocalhost"]>>
    /\ loop["s2"].pc = "closed"

\* The exchange of the session is a request without the proxy credentials
\* made to a proxy with BasicAuth configured.
Unauthenticated(id) ==
    PipelineRan(id) /\ cfg.BasicAuth /\ ~loop[id].req.auth

\* The exchange of the session is a request with the proxy credentials made
\* to a proxy with BasicAuth configured.
Authenticated(id) ==
    PipelineRan(id) /\ cfg.BasicAuth /\ loop[id].req.auth

\* No modifier behind basic-auth stops the request of the session.
NothingElseStops(id) ==
    /\ loop[id].req.user = "pass"
    /\ ~(cfg.ProxyLocalhost = DenyProxyLocalhost /\ ClassifiedLocalhost(loop[id].req.host))
    /\ ~(cfg.DenyDomains /\ loop[id].req.host = "evil.com")

(***************************************************************************)
(* C11.  With BasicAuth configured, every request that does not carry the  *)
(* configured proxy credentials is answered with status 407 and never      *)
(* reaches the upstream round trip, whatever its destination (a localhost  *)
(* or denied-domain destination included); a request with the correct      *)
(* credentials is not aborted by the basic-auth modifier and proceeds to    *)
(* the remaining modifiers and the round trip.                             *)
(***************************************************************************)
C11_BasicAuthGuardsEveryRequest ==
    \A id \in SessionIds :
        /\ Unauthenticated(id) =>
               /\ loop[id].out = <<[status |-> StatusProxyAuthRequired, close |-> TRUE,
                                    by |-> "basicAuth"]>>
               /\ loop[id].ran = <<"basicAuth">>
               /\ NoUpstreamLeg(id)
               /\ loop[id].pc = "closed"
        /\ Authenticated(id) =>
               /\ loop[id].aborted # "basicAuth"
               /\ Len(loop[id].ran) >= 2 /\ loop[id].ran[1] = "basicAuth"
               /\ \A i \in 1..Len(loop[id].out) :
                      loop[id].out[i].status # StatusProxyAuthRequired
               /\ NothingElseStops(id) =>
                      /\ loop[id].ran = RequestModifiers(cfg)
                      /\ loop[id].pc \in {"roundtrip", "write", "read", "closed"}
                      /\ loop[id].pc # "roundtrip" => Len(loop[id].dials) + loop[id].sels >= 1

\* A request to a denied domain without the credentials was answered 407 on
\* one session, and a request with them went through a round trip on the other.
C11_Witness ==
    /\ Unauthenticated("s2") /\ loop["s2"].req.host = "evil.com" /\ cfg.DenyDomains
    /\ loop["s2"].out[1].status = StatusProxyAuthRequired
    /\ Authenticated("s1") /\ NothingElseStops("s1")
    /\ loop["s1"].trips = 1 /\ loop["s1"].out[1].status = StatusOK

(***************************************************************************)
(* C12.  For an abortIf modifier applied to a request on a not-yet-hijacked *)
(* session: if the condition is false it returns nil, writes nothing and   *)
(* leaves the session un-hijacked; if the condition is true it hijacks the *)
(* session, writes the synthesized response to the client exactly once     *)
(* with Close set (Connection: close), and returns the configured error.   *)
(***************************************************************************)
C12_AbortIfContract ==
    \A i \in 1..Len(aborts) :
        LET a == aborts[i]
        IN  ~Hijacked(a.before) =>
                IF a.cond
                THEN /\ Hijacked(a.after)
                     /\ a.out = <<[status |-> abortStatus(a.name), close |-> TRUE,
                                   by |-> a.name]>>
                     /\ a.err = abortErr(a.name)
                ELSE /\ a.err = "nil"
                     /\ a.out = <<>>
                     /\ a.after = a.before /\ ~Hijacked(a.after)

\* abortIf let a request through and then aborted the next one of the same
\* session, whose response writer cannot be taken over.
C12_Witness ==
    /\ Len(aborts) = 2
    /\ aborts[1].id = aborts[2].id
    /\ ~aborts[1].cond /\ aborts[2].cond
    /\ aborts[2].before.rw = "plain"
    /\ Hijacked(aborts[2].after) /\ Len(aborts[2].out) = 1

\* The application aborted a request of a session not hijacked before.
Aborted(a) == a.cond /\ ~Hijacked(a.before)

\* The request went to the logger, then the response, then the response
\* was written to the client.
LoggedThenWritten(a) ==
    /\ Len(a.events) = 3
    /\ a.events[1].ev = "ModifyRequest"
    /\ a.events[2].ev = "ModifyResponse" /\ a.events[2].status = abortStatus(a.name)
    /\ a.events[3].ev = "write" /\ a.events[3].status = abortStatus(a.name)

(***************************************************************************)
(* C13.  Original statement: every exchange aborted by a policy modifier   *)
(* produces a log record of its synthesized response, for every abort      *)
(* status (407, 403) and every enabled log mode, and that record is        *)
(* produced after the request is passed to the logger and before the       *)
(* response bytes are written to the client.                               *)
(***************************************************************************)
C13_EveryAbortLogged ==
    \A i \in 1..Len(aborts) :
        (Aborted(aborts[i]) /\ cfg.LogHTTPMode # "none") =>
            LoggedThenWritten(aborts[i]) /\ aborts[i].events[2].record

(***************************************************************************)
(* C13 as amended: every exchange aborted by a policy modifier passes its  *)
(* synthesized response to the logger, after the request is passed to the  *)
(* logger and before the response bytes are written to the client; the     *)
(* logger produces a record of it in the modes short-url, url, headers and *)
(* body, and none in the mode errors (the abort statuses 407 and 403 are   *)
(* below 500) or none.                                                     *)
(***************************************************************************)
C13_AbortLoggedExceptErrorsMode ==
    \A i \in 1..Len(aborts) :
        Aborted(aborts[i]) =>
            /\ LoggedThenWritten(aborts[i])
            /\ aborts[i].events[2].record <=>
                   cfg.LogHTTPMode \in {"short-url", "url", "headers", "body"}

\* In the mode errors a 403 was written without a record, after another
\* abort; in some mode a 407 was.
C13_Witness ==
    /\ cfg.LogHTTPMode = "errors"
    /\ Len(aborts) = 2
    /\ Aborted(aborts[1]) /\ Aborted(aborts[2])
    /\ aborts[1].name = "basicAuth" /\ aborts[2].name = "denyLocalhost"
    /\ ~aborts[2].events[2].record
    /\ aborts[2].out[1].status = StatusForbidden

\* The loop of the session ends in this step: the connection is closed.
Closes(id) == loop[id].pc # "closed" /\ loop'[id].pc = "closed"

\* The response of the exchange is flushed in this step.
Flushes(id) == loop[id].pc = "write" /\ loop'[id].pc # "write"

(***************************************************************************)
(* C14.  After a response is flushed, a session's request loop goes on to  *)
(* read the next request on the same connection unless the session was     *)
(* hijacked, an error occurred, CloseAfterReply is configured, the client  *)
(* asked for the connection to be closed, or the transport reached EOF; in *)
(* each of those cases the loop ends and the connection is closed, and in  *)
(* no other case is the connection closed.                                 *)
(***************************************************************************)
C14_KeepAliveUnlessClosing ==
    [][\A id \in SessionIds :
          sess[id].conn =>
              /\ Flushes(id) =>
                     loop'[id].pc = IF cfg.CloseAfterReply \/ loop[id].req.close
                                    THEN "closed" ELSE "read"
              /\ (loop[id].pc = "modreq" /\ loop'[id].pc # "modreq") =>
                     /\ Hijacked(sess'[id]) => loop'[id].pc = "closed"
                     /\ loop'[id].pc \in {"closed", "error", "roundtrip", "write"}
              /\ (loop[id].pc = "error" /\ loop'[id].pc # "error") => loop'[id].pc = "closed"
              /\ Closes(id) =>
                     \/ Hijacked(sess'[id])
                     \/ loop[id].pc = "error"
                     \/ loop[id].pc = "write" /\ (cfg.CloseAfterReply \/ loop[id].req.close)
                     \/ loop[id].pc = "read" /\ loop'[id].reads = loop[id].reads + 1
                            /\ loop'[id].served = loop[id].served]_vars

\* A connection was kept for a second request, which asked for the
\* connection to be closed, and was closed after that reply.
C14_Witness ==
    /\ ~cfg.CloseAfterReply
    /\ loop["s1"].served = 2 /\ loop["s1"].writes = 2
    /\ loop["s1"].req.close
    /\ ~Hijacked(sess["s1"])
    /\ loop["s1"].pc = "closed"

\* The user modifier ran on the request of the session and called SkipRoundTrip.
CalledSkipRoundTrip(id) ==
    /\ PipelineRan(id)
    /\ loop[id].req.user = "skip"
    /\ \E i \in 1..Len(loop[id].ran) : loop[id].ran[i] = "user"

(***************************************************************************)
(* C16.  If a request modifier calls SkipRoundTrip on an exchange's        *)
(* context, SkippingRoundTrip() is true for the rest of that exchange and  *)
(* no upstream selection or outbound round trip is performed for it; the   *)
(* flag belongs to the context, so the next request on the same session    *)
(* gets a fresh context on which SkippingRoundTrip() is false.             *)
(***************************************************************************)
C16_SkipRoundTripPerContext ==
    \A id \in SessionIds :
        /\ CalledSkipRoundTrip(id) =>
               /\ SkippingRoundTrip(ExchangeContext(id))
               /\ NoUpstreamLeg(id)
               /\ loop[id].pc \in {"write", "read", "closed"}
        /\ (PipelineRan(id) /\ SkippingRoundTrip(ExchangeContext(id))) => NoUpstreamLeg(id)
        /\ loop[id].pc = "modreq" => ~SkippingRoundTrip(ExchangeContext(id))
        /\ (PipelineRan(id) /\ ~CalledSkipRoundTrip(id)) =>
               ~SkippingRoundTrip(ExchangeContext(id))

\* The first exchange of a connection went without a round trip, and the
\* second, on a fresh context, went through one.
C16_Witness ==
    /\ loop["s1"].served = 2 /\ loop["s1"].skips = 1
    /\ ~SkippingRoundTrip(ExchangeContext("s1"))
    /\ loop["s1"].trips = 1

\* The place of m in the sequence q, which holds it once.
PlaceIn(q, m) == CHOOSE i \in 1..Len(q) : q[i] = m

\* The group has run a request and its response through its modifiers.
ExchangeRun == grp.requests > 0 /\ grp.responses = grp.requests

C20_StatusTextErrorBecomesResponse ==
    \A k \in 1..Len(cli) :
        LET c == cli[k] IN
        c.scheme = "https" /\ ~c.rt.err.isnil =>
            /\ \A code \in 400..599 :
                   StatusText(code) # "" /\ c.rt.err.msg = StatusText(code) =>
                       /\ c.out.err.isnil
                       /\ ~c.out.resp.isnil
                       /\ c.out.resp.StatusCode = code
            /\ c.rt.err.msg = "Service Unavailable" =>
                   c.out.err.isnil /\ c.out.resp.StatusCode = 503

\* An https request failed with "Service Unavailable" and the helper gave
\* a 503 response and no error; another failed with "Bad Gateway".
C20_Witness ==
    /\ Len(cli) = 2
    /\ cli[1].scheme = "https"
    /\ cli[1].rt.err = [isnil |-> FALSE, msg |-> "Service Unavailable"]
    /\ cli[1].out.resp.StatusCode = 503 /\ cli[1].out.err.isnil
    /\ cli[2].scheme = "https"
    /\ cli[2].rt.err = [isnil |-> FALSE, msg |-> "Bad Gateway"]
    /\ cli[2].out.resp.StatusCode = 502

\* The local hosts file: the first address it lists for a name (an IP
\* literal stands for itself), "" when it has none; and the loopback ones.
HostsFileFirst(h) ==
    CASE h = "127.0.0.1"     -> "127.0.0.1"
      [] h = "myhost"        -> "127.99.0.5"
      [] h = "dual"          -> "10.0.0.7"
      [] h = "internal.corp" -> "10.0.0.5"
      [] OTHER               -> ""

LoopbackAddresses == {"127.0.0.1", "127.99.0.5"}

C18_ShutdownForEveryInterleaving ==
    /\ run.gr = "done" => run.listener = "closed"
    /\ run.main = "returned" => run.cancelled /\ run.listener = "closed"
    /\ cfg.TestingHTTPHandler /\ run.gr = "done" => run.shutdown /\ ~run.closed

\* With TestingHTTPHandler the context was cancelled before the server was
\* created, the shutdown goroutine found srv nil and called hp.Close, and
\* Run has returned without Shutdown ever being invoked.
C18_Witness ==
    /\ cfg.TestingHTTPHandler
    /\ run.cancelledAt = "config"
    /\ run.gr = "done" /\ run.closed /\ ~run.shutdown
    /\ run.main = "returned" /\ run.ret = "nil"

\* The MITM filter, as configured, matches the host.
FilterMatches(c, h) == c.MITMDomains => h = "example.com"

(***************************************************************************)
(* C17.  A CONNECT is MITM-intercepted only if MITM is configured and the  *)
(* MITM filter matches the authority host; a session's secure flag is      *)
(* false on creation and becomes true only through such an interception,   *)
(* every request then parsed on that session bears scheme https, and for a *)
(* CONNECT that is not intercepted the bytes are relayed verbatim and no    *)
(* request or response modifier is applied to them.                        *)
(***************************************************************************)
C17_InterceptionAndTunnels ==
    \A id \in SessionIds :
        /\ \A i \in 1..Len(tun[id].mitm) :
               cfg.MITM /\ FilterMatches(cfg, tun[id].mitm[i])
        /\ IsSecure(sess[id]) <=> Len(tun[id].mitm) > 0
        /\ \A i \in 1..Len(tun[id].parsed) :
               /\ tun[id].parsed[i].intercepted > 0 => tun[id].parsed[i].scheme = "https"
               /\ tun[id].parsed[i].intercepted = 0 =>
                      ~tun[id].parsed[i].secure /\ tun[id].parsed[i].scheme = "http"
        /\ tun[id].pc = "tunnel" =>
               ~(cfg.MITM /\ FilterMatches(cfg, tun[id].host))
        /\ \A i \in 1..Len(tun[id].relayed) :
               /\ tun[id].relayed[i].out = tun[id].relayed[i].in
               /\ ~tun[id].relayed[i].modified
               /\ ~(cfg.MITM /\ FilterMatches(cfg, tun[id].relayed[i].host))

\* With a filter on example.com, one connection was intercepted and a
\* request was parsed inside it, and the CONNECT of the other, to another
\* host, was tunnelled and bytes went through.
C17_Witness ==
    /\ cfg.MITM /\ cfg.MITMDomains
    /\ tun["s1"].mitm = <<"example.com">>
    /\ IsSecure(sess["s1"])
    /\ Len(tun["s1"].parsed) = 2 /\ tun["s1"].parsed[2].scheme = "https"
    /\ tun["s2"].pc = "tunnel" /\ tun["s2"].host = "other.org"
    /\ ~IsSecure(sess["s2"])
    /\ Len(tun["s2"].relayed) = 2

\* The tokens of a list that hold a word, and the first word of a token.
WrittenTokens(ts) == SelectSeq(ts, LAMBDA t : \E i \in 1..Len(t) : t[i] # " ")

Keyword(t) == t[CHOOSE i \in 1..Len(t) : t[i] # " " /\ \A j \in 1..(i - 1) : t[j] = " "]

(***************************************************************************)
(* C21.  For every proxy string for which All() returns a list with at     *)
(* least one candidate, First() succeeds and returns a candidate equal to  *)
(* the first element of All().                                             *)
(***************************************************************************)
C21_FirstIsFirstOfAll ==
    pacs.asked = {"All", "First"} /\ pacs.all.err = "nil" /\ Len(pacs.all.all) >= 1 =>
        /\ pacs.first.err = "nil"
        /\ pacs.first.p = pacs.all.all[1]

\* Both views were asked about a string of two candidates of different
\* modes, and agree on the first.
C21_Witness ==
    /\ pacs.asked = {"All", "First"}
    /\ pacs.all.err = "nil" /\ Len(pacs.all.all) = 2
    /\ pacs.all.all[1].Mode = "PROXY" /\ pacs.all.all[2].Mode = "DIRECT"
    /\ pacs.first.p = pacs.all.all[1]

(***************************************************************************)
(* C22.  For every valid proxy string, All() returns one candidate per     *)
(* semicolon-separated token, in the order the tokens appear, each with    *)
(* the mode named by its keyword; a DIRECT candidate carries no host and   *)
(* no port and every candidate of another mode carries both; the empty     *)
(* string yields an empty list and no error.                               *)
(***************************************************************************)
C22_OneCandidatePerToken ==
    "All" \in pacs.asked =>
        /\ pacs.all.err = "nil" =>
              LET written == WrittenTokens(pacs.tokens)
              IN  /\ Len(pacs.all.all) = Len(written)
                  /\ \A i \in 1..Len(written) :
                         /\ pacs.all.all[i].Mode = Keyword(written[i])
                         /\ pacs.all.all[i].Mode = "DIRECT" =>
                                pacs.all.all[i].Host = "" /\ pacs.all.all[i].Port = ""
                         /\ pacs.all.all[i].Mode # "DIRECT" =>
                                pacs.all.all[i].Host # "" /\ pacs.all.all[i].Port # ""
        /\ pacs.s = <<>> => pacs.all.err = "nil" /\ pacs.all.all = <<>>

\* All() was asked about a string of three tokens, a DIRECT among them, and
\* gave a candidate for each.
C22_Witness ==
    /\ "All" \in pacs.asked
    /\ pacs.all.err = "nil" /\ Len(pacs.all.all) = 3
    /\ pacs.all.all[1].Mode = "SOCKS5" /\ pacs.all.all[1].Host = "s"
    /\ pacs.all.all[2].Mode = "PROXY" /\ pacs.all.all[2].Port = "2"
    /\ pacs.all.all[3] = [Mode |-> "DIRECT", Host |-> "", Port |-> ""]

(***************************************************************************)
(* C23.  The log function of mode errors emits a log record for an entry   *)
(* if and only if the entry's status is at least 500; the log function of  *)
(* mode none (or an unset mode) never emits; the log functions of modes    *)
(* short-url, url, headers and body emit exactly one record for every      *)
(* entry, whatever its status.                                             *)
(***************************************************************************)
C23_RecordsByMode ==
    \A i \in 1..Len(logs.entries) :
        LET e == logs.entries[i] IN
        /\ logs.mode = "errors" =>
               /\ Len(e.records) <= 1
               /\ Len(e.records) = 1 <=> e.status >= 500
        /\ logs.mode \in {"none", ""} => Len(e.records) = 0
        /\ logs.mode \in {"short-url", "url", "headers", "body"} => Len(e.records) = 1

\* A logger of mode errors was handed an entry of status 500, which it
\* recorded, and one of status 499, which it did not.
C23_Witness ==
    /\ logs.mode = "errors"
    /\ Len(logs.entries) = 2
    /\ logs.entries[1].status = 500 /\ Len(logs.entries[1].records) = 1
    /\ logs.entries[2].status = 499 /\ Len(logs.entries[2].records) = 0

\* What the lookup in force gives for the argument of a call.
LookupInForce(c) ==
    IF dnsCalls.testingLookupIP.isnil
    THEN IF c.arg.v = "example.com"
         THEN [ips |-> <<"10.0.0.5", "10.0.0.7">>, err |-> "nil"]
         ELSE [ips |-> <<>>, err |-> "no such host"]
    ELSE LET r == dnsCalls.testingLookupIP.f[c.arg.v]
         IN  [ips |-> [i \in 1..Len(r.ips) |->
                          CASE r.ips[i] = <<10, 0, 0, 5>> -> "10.0.0.5"
                            [] r.ips[i] = <<10, 0, 0, 7>> -> "10.0.0.7"
                            [] OTHER -> "127.99.0.5"],
              err |-> r.err]

\* The part of the claim about the values returned.
ResolvesAsLooked(c) ==
    /\ c.arg.type # "string" => c.ret.kind = "undefined"
    /\ c.arg.type = "string" /\ LookupInForce(c).err # "nil" => c.ret.kind = "null"
    /\ c.arg.type = "string" /\ LookupInForce(c).err = "nil" /\ LookupInForce(c).ips # <<>> =>
           c.ret.kind = "string" /\ c.ret.v = LookupInForce(c).ips[1]

(***************************************************************************)
(* C24, as stated.  dnsResolve(host) returns the first address of the      *)
(* lookup as a string when the lookup succeeds and null when it fails,     *)
(* using the testing lookup when one is configured and the configured      *)
(* resolver otherwise; it returns undefined when the argument is not a     *)
(* string, and for every lookup outcome (error, addresses, no addresses)   *)
(* it returns one of these values rather than failing.                     *)
(***************************************************************************)
C24_ReturnsForEveryOutcome ==
    \A i \in 1..Len(dnsCalls.calls) :
        /\ ResolvesAsLooked(dnsCalls.calls[i])
        /\ dnsCalls.calls[i].ret.kind \in {"string", "null", "undefined"}

(***************************************************************************)
(* C24, amended.  dnsResolve returns undefined for an argument that is not *)
(* a string, null when the lookup in force fails and the first address as  *)
(* a string when it gives addresses; it fails, instead of returning, only  *)
(* when the lookup reports success with no addresses.                      *)
(***************************************************************************)
C24_ReturnsUnlessNoAddresses ==
    \A i \in 1..Len(dnsCalls.calls) :
        LET c == dnsCalls.calls[i] IN
        /\ ResolvesAsLooked(c)
        /\ c.ret.kind \notin {"string", "null", "undefined"} <=>
               /\ c.arg.type = "string"
               /\ LookupInForce(c).err = "nil"
               /\ LookupInForce(c).ips = <<>>

\* With a testing lookup configured, one call got its first address and
\* not the resolver's, and a call for the name it knows no address of, and
\* reports no error for, did not return.
C24_Witness ==
    /\ ~dnsCalls.testingLookupIP.isnil
    /\ Len(dnsCalls.calls) = 2
    /\ dnsCalls.calls[1].arg = [type |-> "string", v |-> "example.com"]
    /\ dnsCalls.calls[1].ret = [kind |-> "string", v |-> "127.99.0.5"]
    /\ dnsCalls.calls[2].arg = [type |-> "string", v |-> "nohost"]
    /\ dnsCalls.calls[2].ret.kind = "panic"

(***************************************************************************)
(* C25.  For any context c and any base propagation context bg (including  *)
(* nil), FromContext(c.addToContext(bg)) returns c itself and the trace    *)
(* key of the result holds c.ID(); FromContext of a propagation context to *)
(* which no context was ever attached returns nil.                         *)
(***************************************************************************)
C25_FromContextReturnsAttached ==
    /\ \A i \in 1..Len(prop.attached) :
           LET a == prop.attached[i] IN
           /\ a.from = a.c
           /\ ~a.trace.isnil
           /\ a.trace.str = ID(prop.heap[a.c])
    /\ \A a \in prop.asked : a.from = 0

\* A context was attached to nil, and a second context to the result,
\* which FromContext then returned; and a context with a string key
\* spelled like the martian key was asked and gave nil.
C25_Witness ==
    /\ Len(prop.heap) = 2 /\ Len(prop.attached) = 2
    /\ prop.attached[1].c = 1 /\ prop.attached[1].bg.isnil
    /\ prop.attached[2].c = 2 /\ Len(prop.attached[2].bg.pairs) = 2
    /\ prop.attached[2].from = 2
    /\ \E a \in prop.asked : Len(a.bg.pairs) = 1 /\ a.bg.pairs[1].key.name = "martian.Context"

\* The credentials cover the URL of the request.
CredentialsCover(r) == hdr.creds /\ r.host = "p1"

\* What the claim says of the User-Agent, and of the headers the modifiers
\* are not about.
UserAgentKept(d) ==
    /\ d.auth.UserAgent = d.before.UserAgent /\ d.auth.host = d.before.host
    /\ d.after.Authorization = d.auth.Authorization /\ d.after.host = d.before.host
    /\ d.before.UserAgent.present => d.after.UserAgent = d.before.UserAgent
    /\ ~d.before.UserAgent.present => d.after.UserAgent = [present |-> TRUE, values |-> <<"">>]

(***************************************************************************)
(* C27, as stated.  setBasicAuth sets the request's Authorization header   *)
(* only when the request carries none and the credential matcher matches   *)
(* the request URL; a request that already carries an Authorization header *)
(* leaves the modifier with that header unchanged, and setEmptyUserAgent   *)
(* adds an empty User-Agent only when the header is absent and never       *)
(* changes a User-Agent the client sent.                                   *)
(***************************************************************************)
C27_AuthorizationSetOnlyWhenAbsent ==
    \A i \in 1..Len(hdr.done) :
        LET d == hdr.done[i] IN
        /\ d.auth.Authorization # d.before.Authorization =>
               ~d.before.Authorization.present /\ CredentialsCover(d.before)
        /\ d.before.Authorization.present => d.auth.Authorization = d.before.Authorization
        /\ UserAgentKept(d)

(***************************************************************************)
(* C27, amended.  setBasicAuth sets the Authorization header exactly when  *)
(* the request carries none, or only an empty one, and the credential      *)
(* matcher matches the request URL; a request that carries a non-empty     *)
(* Authorization header keeps it unchanged; setEmptyUserAgent adds an      *)
(* empty User-Agent only when the header is absent and never changes a     *)
(* User-Agent the client sent.                                             *)
(***************************************************************************)
C27_AuthorizationSetWhenAbsentOrEmpty ==
    \A i \in 1..Len(hdr.done) :
        LET d == hdr.done[i]
            empty == \/ ~d.before.Authorization.present
                     \/ d.before.Authorization.values = <<"">>
        IN
        /\ IF empty /\ CredentialsCover(d.before)
           THEN d.auth.Authorization = [present |-> TRUE, values |-> <<"Basic matched">>]
           ELSE d.auth.Authorization = d.before.Authorization
        /\ UserAgentKept(d)

\* With a matcher, a request without headers got both, one with a bearer
\* token and a User-Agent kept both, to the same covered host.
C27_Witness ==
    /\ hdr.creds /\ Len(hdr.done) = 2
    /\ hdr.done[1].before = [host |-> "p1", Authorization |-> [present |-> FALSE, values |-> <<>>],
                             UserAgent |-> [present |-> FALSE, values |-> <<>>]]
    /\ hdr.done[1].after.Authorization.values = <<"Basic matched">>
    /\ hdr.done[1].after.UserAgent.values = <<"">>
    /\ hdr.done[2].before.host = "p1"
    /\ hdr.done[2].before.Authorization.values = <<"Bearer abc">>
    /\ hdr.done[2].before.UserAgent.values = <<"curl/8">>
    /\ hdr.done[2].after = hdr.done[2].before

\* What Get must give for a key last set to v ("" when it never was).
GetOf(v) == [val |-> v, ok |-> v # ""]

(***************************************************************************)
(* C26.  A value stored with Session.Set(k, v) is returned by              *)
(* Session.Get(k) through every context of that session, across all its    *)
(* requests, until k is set again; a value stored with Context.Set(k, v)   *)
(* is returned only by that context's Get(k) and is absent from every      *)
(* other context of the same session and from the session's own map.       *)
(***************************************************************************)
C26_SessionValuesSharedContextValuesOwn ==
    \A k \in ValKeys :
        /\ \A i \in 1..Len(vals.heap.ctx) :
               /\ vals.heap.ctx[i].session = "s"
               /\ SessionGet(vals.heap, k) = GetOf(vals.last[0][k])
               /\ ContextGet(vals.heap, i, k) = GetOf(vals.last[i][k])
        /\ Len(vals.heap.ctx) = 0 => SessionGet(vals.heap, k) = GetOf("")

\* k1 was set on the session through the first request's context and on
\* the second context alone: the second request sees the session's value,
\* the first context and the session do not see the second context's.
C26_Witness ==
    /\ Len(vals.heap.ctx) = 2
    /\ vals.last[0]["k1"] = "v1" /\ vals.last[2]["k1"] = "v2" /\ vals.last[1]["k1"] = ""
    /\ SessionGet(vals.heap, "k1") = [val |-> "v1", ok |-> TRUE]
    /\ ContextGet(vals.heap, 2, "k1") = [val |-> "v2", ok |-> TRUE]
    /\ ContextGet(vals.heap, 1, "k1") = [val |-> "", ok |-> FALSE]

\* The step made one Hijack or HijackResponseWriter call on session id, and
\* the record of that call.
MadeHijackCall(id) == Len(calls'[id]) = Len(calls[id]) + 1

LastCall(id) == calls'[id][Len(calls'[id])]

\* The step turned the hijacked flag of session id from false to true.
FlagSet(id) == ~sess[id].hijacked /\ sess'[id].hijacked

\* What every step keeps whoever makes it: a set flag stays set, and a
\* hijack call leaves the secure flag and the session values alone.
HijackFrame(id) ==
    /\ sess[id].hijacked => sess'[id].hijacked
    /\ MadeHijackCall(id) =>
           /\ sess'[id].secure = sess[id].secure
           /\ sess'[id].vals = sess[id].vals

\* C29 as written.  The hijacked flag is false on creation, goes from false
\* to true exactly in a step that is a successful Hijack or
\* HijackResponseWriter, is left as it was by a failed call, is never reset,
\* and no hijack call changes the secure flag or the session values.
C29_FlagSetExactlyBySuccessfulCall ==
    /\ \A id \in SessionIds : ~sess[id].hijacked
    /\ [][\A id \in SessionIds :
              /\ HijackFrame(id)
              /\ FlagSet(id) <=> (MadeHijackCall(id) /\ LastCall(id).err = "nil")]_vars

\* C29 amended.  As above, but the flag is also set by a Hijack call that
\* panics on a session with neither connection nor response writer; every
\* call that returns an error leaves the flag as it was.
C29_FlagSetBySuccessfulOrPanickingCall ==
    /\ \A id \in SessionIds : ~sess[id].hijacked
    /\ [][\A id \in SessionIds :
              /\ HijackFrame(id)
              /\ FlagSet(id) <=>
                     (MadeHijackCall(id) /\ LastCall(id).err \in {"nil", "panic"})]_vars

\* Hijack failed with not-supported, HijackResponseWriter then succeeded and
\* set the flag, on a session marked secure that holds a value.
C29_Witness ==
    /\ calls["s1"] = << [op |-> "Hijack", err |-> "ErrNotSupported"],
                        [op |-> "HijackResponseWriter", err |-> "nil"] >>
    /\ sess["s1"].hijacked
    /\ sess["s1"].secure
    /\ sess["s1"].vals = "v1"

\* The calls on the session that came back with success, and those past
\* their body with success.
ReturnedSuccess == {i \in 1..Len(hj.results) : hj.results[i].err = "nil"}

AboutToReturnSuccess ==
    {h \in HijackCallers : hj.g[h].pc = "unlock" /\ hj.g[h].err = "nil"}

\* C28.  Whatever the interleaving of the goroutines calling Hijack and
\* HijackResponseWriter on one session, at most one call returns success.
C28_AtMostOneSuccess ==
    Cardinality(ReturnedSuccess) + Cardinality(AboutToReturnSuccess) <= 1

\* Every goroutine made a call, calls of both methods returned from
\* different goroutines, one call with success and one refused because the
\* session was already hijacked.
C28_Witness ==
    /\ Len(hj.results) >= 3
    /\ Cardinality(ReturnedSuccess) = 1
    /\ \E i, j \in 1..Len(hj.results) :
           /\ hj.results[i].op = "Hijack"
           /\ hj.results[j].op = "HijackResponseWriter"
           /\ hj.results[i].by # hj.results[j].by
           /\ hj.results[i].err = "already hijacked" \/ hj.results[j].err = "already hijacked"
    /\ \A h \in HijackCallers : hj.g[h].n >= 1

\* Run has returned nil.
RunReturnedNil == run.main = "returned" /\ run.ret = "nil"

\* The shutdown waiter has finished its work: the goroutine is done, the
\* listener is closed, and hp.Close or srv.Shutdown has completed.
WaiterFinished ==
    /\ run.gr = "done"
    /\ run.listener = "closed"
    /\ run.closed \/ run.shutdown

\* C30 as written.  Whenever Run returns nil the shutdown waiter has
\* already finished: the listener is closed and the proxy's Close (or the
\* server's Shutdown) has completed, in every interleaving of Serve's
\* return with the waiter.
C30_NilReturnAfterWaiterFinished ==
    RunReturnedNil => WaiterFinished

\* C30 amended.  Whenever Run returns nil the listener is closed; the
\* waiter has finished when Run returned through wg.Wait, that is when
\* Serve returned nil.  A Serve that failed with net.ErrClosed makes Run
\* return nil without waiting.
C30_NilReturnAfterListenerClosed ==
    /\ RunReturnedNil => run.listener = "closed" /\ run.cancelled
    /\ RunReturnedNil /\ run.waited => WaiterFinished

\* Serve returned nil after serving a connection, Run waited for the
\* shutdown goroutine and returned nil with hp.Close completed.
C30_Witness ==
    /\ RunReturnedNil
    /\ run.waited
    /\ run.accepted >= 1
    /\ run.gr = "done" /\ run.closed

\* The message is the standard status phrase of no code in 400..599.
NoStatusPhrase(msg) ==
    \A code \in 400..599 : StatusText(code) = "" \/ msg # StatusText(code)

\* The call gave back what the round trip gave: the same response and the
\* same error, nothing synthesized.
Unconverted(c) == c.out.resp = c.rt.resp /\ c.out.err = c.rt.err

\* C32 as written.  The conversion applies in no other case: a request whose
\* scheme is not https, an error whose message equals no standard status
\* phrase of a code in 400..599 (the empty message included), and a round
\* trip that succeeded all give back what the round trip gave.
C32_NoConversionOtherwise ==
    \A k \in 1..Len(cli) :
        LET c == cli[k] IN
        /\ c.scheme # "https" => Unconverted(c)
        /\ ~c.rt.err.isnil /\ NoStatusPhrase(c.rt.err.msg) => Unconverted(c)
        /\ c.rt.err.isnil => Unconverted(c)

\* C32 amended.  As above for every error with a non-empty message; an
\* https request that failed with an empty message is given a synthesized
\* response with the first code of 400..599 that has no status phrase, 419,
\* an empty status line and no error.
C32_NoConversionUnlessEmptyMessage ==
    \A k \in 1..Len(cli) :
        LET c == cli[k] IN
        /\ c.scheme # "https" => Unconverted(c)
        /\ ~c.rt.err.isnil /\ NoStatusPhrase(c.rt.err.msg) /\ c.rt.err.msg # "" =>
               Unconverted(c)
        /\ c.rt.err.isnil => Unconverted(c)
        /\ c.scheme = "https" /\ ~c.rt.err.isnil /\ c.rt.err.msg = "" =>
               /\ c.out.err.isnil
               /\ c.out.resp = [isnil |-> FALSE, StatusCode |-> 419, Status |-> ""]

\* An http request failed with "Service Unavailable" and an https request
\* with a dial error: both calls returned the error of the round trip and no
\* response.
C32_Witness ==
    /\ Len(cli) = 2
    /\ cli[1].scheme = "http"
    /\ cli[1].rt.err = [isnil |-> FALSE, msg |-> "Service Unavailable"]
    /\ cli[1].out.err = cli[1].rt.err /\ cli[1].out.resp.isnil
    /\ cli[2].scheme = "https"
    /\ cli[2].rt.err = [isnil |-> FALSE, msg |-> "dial tcp: connection refused"]
    /\ cli[2].out.err = cli[2].rt.err /\ cli[2].out.resp.isnil

\* Run has stopped, and it stopped because its context was cancelled: in
\* SpecRun nothing but the shutdown goroutine closes the listener.
RunStoppedByCancel == run.main = "returned" /\ run.cancelled

\* C31 as written.  Whenever Run stops because its context was cancelled it
\* returns nil rather than an error, when the proxy owns the listener loop
\* and when an http.Server owns it (TestingHTTPHandler).
C31_CancelledRunReturnsNil ==
    RunStoppedByCancel => run.ret = "nil"

\* C31 amended.  Run returns nil when the proxy owns the loop, and with
\* TestingHTTPHandler when the shutdown goroutine closed the listener
\* through hp.Close; when the goroutine invoked srv.Shutdown, Run returns
\* http.ErrServerClosed.
C31_CancelledRunReturnsNilUnlessShutdown ==
    /\ run.shutdown => cfg.TestingHTTPHandler
    /\ RunStoppedByCancel =>
           run.ret = IF run.shutdown THEN "http.ErrServerClosed" ELSE "nil"

\* The proxy owns the loop, the context was cancelled while Serve was
\* accepting, Serve failed with net.ErrClosed and Run returned nil.
C31_Witness ==
    /\ ~cfg.TestingHTTPHandler
    /\ run.cancelledAt = "serve"
    /\ run.accepted >= 1
    /\ RunStoppedByCancel
    /\ ~run.waited
    /\ run.ret = "nil"

(***************************************************************************)
(* C3.  Any two contexts created by withSession have different ID()        *)
(* strings, whether created concurrently by different connections'         *)
(* goroutines or on the same session for successive requests.              *)
(***************************************************************************)
C3_IDsPairwiseDistinct ==
    \A i, j \in 1..Len(ctxs) : i # j => ID(ctxs[i]) # ID(ctxs[j])

\* Contexts of one session and of two sessions exist, two of them with the
\* same hash, built from counter values taken in the other order.
C3_Witness ==
    \E i, j, k \in 1..Len(ctxs) :
        /\ i < j /\ ctxs[i].session = ctxs[j].session
        /\ ctxs[k].session # ctxs[i].session
        /\ ctxs[i].hash = ctxs[k].hash
        /\ \E a, b \in 1..Len(ctxs) : a < b /\ ctxs[a].n > ctxs[b].n
====
